---- MODULE Spec2Model ----
(***************************************************************************)
(* V4-front: single-pass Forth-style compiler to V4 bytecode.              *)
(* Model of compile_internal / v4front_compile / v4front_free.             *)
(* One action per iteration of the token loop (one per branch of the       *)
(* dispatch chain), one for the empty-input path, one for finalization and *)
(* one for v4front_free.  Streams are sequences of bytes 0..255, tokens    *)
(* are sequences of one-character strings.                                 *)
(***************************************************************************)
EXTENDS Integers, Sequences, FiniteSets, TLC

(***************************************************************************)
(* Bounds of the exploration.                                              *)
(***************************************************************************)
\* number of tokens read from the source before end of input is forced
MaxTokens == 4
\* number of v4front_free calls made on the handle after the compilation
MaxFrees == 2

(***************************************************************************)
(* Program constants.                                                      *)
(***************************************************************************)
\* one frame more than the control stack has room for
MAX_CONTROL_DEPTH_one_more == 32 + 1

MAX_CONTROL_DEPTH == 32
\* room for one more LEAVE per frame than the array has
MAX_LEAVE_DEPTH_nine == 8 + 1

MAX_LEAVE_DEPTH == 8
\* a dictionary check that lets one more definition start
MAX_WORDS_one_more == 256 + 1

MAX_WORDS == 256
\* the default base of the data space, 0x10000, and the bytes of a cell
DATA_SPACE_BASE == 65536
CELL == 4
\* sizeof(current_word_name)
NAME_CAP == 64
\* first capacity of a stream (append_byte)
INITIAL_CAP == 64

\* Opcode bytes (v4::Op, from the VM's opcode table).
OP_LIT == 0
OP_DUP == 1
OP_DROP == 2
OP_SWAP == 3
OP_OVER == 4
OP_TOR == 5
OP_FROMR == 6
OP_RFETCH == 7
OP_ADD == 16
OP_SUB == 17
OP_MUL == 18
OP_DIV == 19
OP_MOD == 20
OP_EQ == 32
OP_NE == 33
OP_LT == 34
OP_LE == 35
OP_GT == 36
OP_GE == 37
OP_AND == 40
OP_OR == 41
OP_XOR == 42
OP_INVERT == 43
OP_LOAD == 48
OP_STORE == 49
OP_JMP == 64
OP_JZ == 65
OP_CALL == 80
OP_RET == 81

(***************************************************************************)
(* Characters and strings.                                                 *)
(***************************************************************************)
UpperChars == <<"A","B","C","D","E","F","G","H","I","J","K","L","M",
                "N","O","P","Q","R","S","T","U","V","W","X","Y","Z">>
LowerChars == <<"a","b","c","d","e","f","g","h","i","j","k","l","m",
                "n","o","p","q","r","s","t","u","v","w","x","y","z">>

\* tolower() of <cctype> in the "C" locale
tolower(c) ==
  IF \E i \in 1..26 : UpperChars[i] = c
  THEN LowerChars[CHOOSE i \in 1..26 : UpperChars[i] = c]
  ELSE c

\* the comparison loop of str_eq_ci; <<>> is the position of the NUL
RECURSIVE str_eq_ci(_, _)
str_eq_ci(a, b) ==
  IF a # <<>> /\ b # <<>>
  THEN IF tolower(Head(a)) # tolower(Head(b))
       THEN FALSE
       ELSE str_eq_ci(Tail(a), Tail(b))
  ELSE (a = <<>>) /\ (b = <<>>)

\* strcmp(a, b) == 0
strcmp_eq(a, b) == a = b

(***************************************************************************)
(* Fixed-width integers.                                                   *)
(***************************************************************************)
\* (uint8_t)(v & 0xFF)
U8(v) == v % 256
\* (int16_t) of a 32-bit difference: keep the low 16 bits, reinterpret
I16(v) == LET m == v % 65536 IN IF m >= 32768 THEN m - 65536 ELSE m
\* the two bytes append_i16_le / backpatch_i16_le write for val
LE16(val) == << U8(val), U8(val \div 256) >>
\* the four bytes append_i32_le writes for val
LE32(val) == << U8(val), U8(val \div 256), U8(val \div 65536), U8(val \div 16777216) >>
\* little-endian signed 16-bit value stored at index pos (1-based) of s
RdI16(s, pos) == I16(s[pos] + 256 * s[pos + 1])
\* little-endian signed 32-bit value stored at index pos (1-based) of s
RdI32(s, pos) ==
  LET hi == s[pos + 2] + 256 * s[pos + 3]
      lo == s[pos] + 256 * s[pos + 1]
  IN (IF hi >= 32768 THEN hi - 65536 ELSE hi) * 65536 + lo

(***************************************************************************)
(* strtol(token, &endptr, 0) and try_parse_int.                            *)
(* A long is kept as sign and magnitude, the magnitude as four 16-bit      *)
(* limbs (least significant first) plus a flag for a magnitude >= 2^64.    *)
(***************************************************************************)
DigitChars == <<"0","1","2","3","4","5","6","7","8","9","a","b","c","d","e","f">>

\* value of c as a digit, 99 when c is no digit
DigitVal(c) ==
  LET l == tolower(c)
  IN IF \E i \in 1..16 : DigitChars[i] = l
     THEN (CHOOSE i \in 1..16 : DigitChars[i] = l) - 1
     ELSE 99

ZeroMag == [l0 |-> 0, l1 |-> 0, l2 |-> 0, l3 |-> 0, ov |-> FALSE]

\* m * base + d on the limbs
MagMulAdd(m, base, d) ==
  LET t0 == m.l0 * base + d
      t1 == m.l1 * base + (t0 \div 65536)
      t2 == m.l2 * base + (t1 \div 65536)
      t3 == m.l3 * base + (t2 \div 65536)
  IN [l0 |-> t0 % 65536, l1 |-> t1 % 65536, l2 |-> t2 % 65536,
      l3 |-> t3 % 65536, ov |-> m.ov \/ t3 >= 65536]

\* the digit loop of strtol: consumes digits of the base from s, returns
\* the magnitude and the number of characters consumed
RECURSIVE StrtolDigits(_, _, _, _)
StrtolDigits(s, base, m, n) ==
  IF s # <<>> /\ DigitVal(Head(s)) < base
  THEN StrtolDigits(Tail(s), base, MagMulAdd(m, base, DigitVal(Head(s))), n + 1)
  ELSE [mag |-> m, n |-> n]

\* magnitude exceeds LONG_MAX (neg = FALSE) or -LONG_MIN (neg = TRUE)
MagOutOfLong(m, neg, bits) ==
  IF bits = 64
  THEN \/ m.ov
       \/ m.l3 > 32768
       \/ m.l3 = 32768 /\ (~neg \/ m.l2 # 0 \/ m.l1 # 0 \/ m.l0 # 0)
  ELSE \/ m.ov \/ m.l3 # 0 \/ m.l2 # 0
       \/ m.l1 > 32768
       \/ m.l1 = 32768 /\ (~neg \/ m.l0 # 0)

\* (int32_t) of the long with this sign and magnitude (in range of long)
MagToInt32(m, neg) ==
  LET n0 == IF neg THEN (65536 - m.l0) % 65536 ELSE m.l0
      n1 == IF neg
            THEN (IF m.l0 = 0 THEN (65536 - m.l1) % 65536 ELSE 65535 - m.l1)
            ELSE m.l1
  IN (IF n1 >= 32768 THEN n1 - 65536 ELSE n1) * 65536 + n0

\* (int32_t)LONG_MAX, (int32_t)LONG_MIN
ClampToInt32(neg, bits) ==
  IF bits = 64 THEN (IF neg THEN 0 ELSE -1)
  ELSE (IF neg THEN -2147483647 - 1 ELSE 2147483647)

\* strtol with base 0: [end |-> characters consumed (0: no conversion),
\*                      val |-> (int32_t) of the returned long,
\*                      range |-> ERANGE was raised]
strtol0(token, bits) ==
  LET signed == token # <<>> /\ Head(token) \in {"+", "-"}
      neg == signed /\ Head(token) = "-"
      s1 == IF signed THEN Tail(token) ELSE token
      k1 == IF signed THEN 1 ELSE 0
      hex == /\ Len(s1) >= 3 /\ s1[1] = "0" /\ tolower(s1[2]) = "x"
             /\ DigitVal(s1[3]) < 16
      base == IF hex THEN 16 ELSE IF s1 # <<>> /\ s1[1] = "0" THEN 8 ELSE 10
      s2 == IF hex THEN Tail(Tail(s1)) ELSE s1
      k2 == IF hex THEN k1 + 2 ELSE k1
      d == StrtolDigits(s2, base, ZeroMag, 0)
  IN IF d.n = 0
     THEN [end |-> 0, val |-> 0, range |-> FALSE]
     ELSE IF MagOutOfLong(d.mag, neg, bits)
          THEN [end |-> k2 + d.n, val |-> ClampToInt32(neg, bits), range |-> TRUE]
          ELSE [end |-> k2 + d.n, val |-> MagToInt32(d.mag, neg), range |-> FALSE]

\* try_parse_int: [ok |-> the token is taken as an integer, val |-> *out]
try_parse_int(token, bits) ==
  LET r == strtol0(token, bits)
  IN IF r.end = 0 \/ r.end # Len(token)
     THEN [ok |-> FALSE, val |-> 0]
     ELSE [ok |-> TRUE, val |-> r.val]

(***************************************************************************)
(* Heap.  heap[p] is the number of times allocation p has been released;   *)
(* pointer 0 is NULL.  realloc keeps the identity of the allocation.       *)
(***************************************************************************)
free(h, p) == IF p = 0 THEN h ELSE [h EXCEPT ![p] = @ + 1]

(***************************************************************************)
(* Emitter.  A stream is [buf, cap, ptr]: the size bytes written so far,   *)
(* the capacity and the allocation.  An emit context adds the heap, the    *)
(* count of allocation requests made in this step, the request that fails  *)
(* (0: none), the error raised so far (after an error the remaining        *)
(* appends of the step are not executed) and what the backpatches of the   *)
(* step did outside the stream.                                            *)
(***************************************************************************)
NullStream == [buf |-> <<>>, cap |-> 0, ptr |-> 0]

EmitCtx(s, h, fail_at) ==
  [buf |-> s.buf, cap |-> s.cap, ptr |-> s.ptr, heap |-> h,
   nalloc |-> 0, fail_at |-> fail_at, err |-> "OK",
   out |-> FALSE, wild |-> FALSE]

StreamOf(e) == [buf |-> e.buf, cap |-> e.cap, ptr |-> e.ptr]

\* append_byte growing the allocation by 64 bytes instead of doubling it
append_byte_linear(e, byte) ==
  IF e.err # "OK" THEN e
  ELSE IF Len(e.buf) >= e.cap
       THEN LET new_cap == e.cap + INITIAL_CAP
                n == e.nalloc + 1
            IN IF n = e.fail_at
               THEN [e EXCEPT !.nalloc = n, !.err = "OutOfMemory"]
               ELSE IF e.ptr = 0
                    THEN [e EXCEPT !.nalloc = n, !.cap = new_cap,
                                   !.heap = Append(e.heap, 0),
                                   !.ptr = Len(e.heap) + 1,
                                   !.buf = Append(e.buf, byte)]
                    ELSE [e EXCEPT !.nalloc = n, !.cap = new_cap,
                                   !.buf = Append(e.buf, byte)]
       ELSE [e EXCEPT !.buf = Append(e.buf, byte)]

append_byte(e, byte) ==
  IF e.err # "OK" THEN e
  ELSE IF Len(e.buf) >= e.cap
       THEN LET new_cap == IF e.cap = 0 THEN INITIAL_CAP ELSE e.cap * 2
                n == e.nalloc + 1
            IN IF n = e.fail_at
               THEN [e EXCEPT !.nalloc = n, !.err = "OutOfMemory"]
               ELSE IF e.ptr = 0
                    THEN [e EXCEPT !.nalloc = n, !.cap = new_cap,
                                   !.heap = Append(e.heap, 0),
                                   !.ptr = Len(e.heap) + 1,
                                   !.buf = Append(e.buf, byte)]
                    ELSE [e EXCEPT !.nalloc = n, !.cap = new_cap,
                                   !.buf = Append(e.buf, byte)]
       ELSE [e EXCEPT !.buf = Append(e.buf, byte)]

append_i16_le(e, val) ==
  append_byte(append_byte(e, U8(val)), U8(val \div 256))

append_i32_le(e, val) ==
  append_byte(append_byte(append_byte(append_byte(e,
     U8(val)), U8(val \div 256)), U8(val \div 65536)), U8(val \div 16777216))

\* a run of single-byte opcodes, one append_byte each
RECURSIVE append_ops(_, _)
append_ops(e, ops) ==
  IF ops = <<>> THEN e ELSE append_ops(append_byte(e, Head(ops)), Tail(ops))

\* backpatch_i16_le writes buf[pos] and buf[pos + 1] unchecked (pos 0-based).
\* A byte below size lands in the stream; one at or above size but below
\* cap lands in the unused tail of the allocation, which the next appends
\* overwrite; one at or above cap (a NULL buffer has cap 0) is outside the
\* allocation.   [buf |-> the stream afterwards, out |-> a byte fell at or
\* above size, wild |-> a byte fell outside the allocation]
backpatch_i16_le(s, pos, val) ==
  LET b == LE16(val)
      w1 == IF pos < Len(s.buf) THEN [s.buf EXCEPT ![pos + 1] = b[1]] ELSE s.buf
      w2 == IF pos + 1 < Len(s.buf) THEN [w1 EXCEPT ![pos + 2] = b[2]] ELSE w1
  IN [buf |-> w2, out |-> pos + 1 >= Len(s.buf), wild |-> pos + 1 >= s.cap]

\* a backpatch inside an emit context; out and wild are remembered
Patch(e, pos, val) ==
  LET r == backpatch_i16_le(StreamOf(e), pos, val)
  IN IF e.err # "OK" THEN e
     ELSE [e EXCEPT !.buf = r.buf, !.out = @ \/ r.out, !.wild = @ \/ r.wild]

(***************************************************************************)
(* Control frames.                                                         *)
(***************************************************************************)
IF_CONTROL == "IF_CONTROL"
BEGIN_CONTROL == "BEGIN_CONTROL"
DO_CONTROL == "DO_CONTROL"

ControlFrame(type) ==
  [type |-> type,
   jz_patch_addr |-> 0, jmp_patch_addr |-> 0, has_else |-> FALSE,
   begin_addr |-> 0, while_patch_addr |-> 0, has_while |-> FALSE,
   do_addr |-> 0, leave_patch_addrs |-> <<>>, leave_count |-> 0]

(***************************************************************************)
(* Keywords of the dispatch chain, as NUL-terminated strings.              *)
(***************************************************************************)
kw_COLON == <<":">>
kw_SEMI == <<";">>
kw_BEGIN == <<"B","E","G","I","N">>
kw_DO == <<"D","O">>
kw_UNTIL == <<"U","N","T","I","L">>
kw_WHILE == <<"W","H","I","L","E">>
kw_REPEAT == <<"R","E","P","E","A","T">>
kw_AGAIN == <<"A","G","A","I","N">>
kw_LEAVE == <<"L","E","A","V","E">>
kw_LOOP == <<"L","O","O","P">>
kw_PLOOP == <<"+","L","O","O","P">>
kw_IF == <<"I","F">>
kw_ELSE == <<"E","L","S","E">>
kw_THEN == <<"T","H","E","N">>
kw_EXIT == <<"E","X","I","T">>

\* the keywords tested before the dictionary lookup, in the order tested
Keywords ==
  << kw_COLON, kw_SEMI, kw_BEGIN, kw_DO, kw_UNTIL, kw_WHILE, kw_REPEAT,
     kw_AGAIN, kw_LEAVE, kw_LOOP, kw_PLOOP, kw_IF, kw_ELSE, kw_THEN, kw_EXIT >>

IsKeyword(token) == \E i \in 1..Len(Keywords) : str_eq_ci(token, Keywords[i])

(***************************************************************************)
(* State of one invocation of v4front_compile and of the handle after it.  *)
(***************************************************************************)
VARIABLES
  pc,                \* "run": in the token loop, "ok" / "err": returned,
                     \* "crash": the process died on a wild write
  ret,               \* the FrontErr returned
  long_bits,         \* width of long on the build
  bc,                \* main stream: bc, bc_size, bc_cap
  word_bc,           \* stream of the open definition
  current_bc,        \* "bc" or "word_bc": where current_bc points
  heap,              \* release count of every allocation made
  control_stack,     \* control_stack[1..control_depth]
  word_dict,         \* word_dict[1..word_count]
  in_definition,
  current_word_name,
  out_buf,           \* the caller's V4FrontBuf
  ntok,              \* tokens read so far
  last_token,        \* the text of the last token read
  last_op,          \* the last token class read, or the last call made
  main_last,         \* the class of the last token that appended to the
                     \* main stream
  patch_out,         \* some backpatch wrote at or above the size of the
                     \* stream it was applied to
  free_calls,        \* calls of v4front_free made on the handle
  source,            \* the source text, when it is followed byte by byte
  cursor,            \* the cursor p into the source text (0-based)
  by_char,           \* TRUE: the tokens are cut out of source; FALSE: the
                     \* text is left open and each token is an input
  src_tokens,        \* by_char = FALSE: the most tokens the text has
  vm,                \* the stack machine running the compiled main code, or
                     \* NoVM while none has been started
  err_buf,           \* the caller's message buffer (err, err_cap)
  call,              \* the entry point called, with its name argument
  data_space         \* the next free address of the data space

vars == << pc, ret, long_bits, bc, word_bc, current_bc, heap, control_stack,
           word_dict, in_definition, current_word_name, out_buf, ntok,
           last_token, last_op, main_last, patch_out, free_calls,
           source, cursor, by_char, src_tokens, vm, err_buf, call,
           data_space >>

\* what compile_internal and v4front_free never change
env == << long_bits, source, by_char, src_tokens, vm, err_buf, call >>

\* v4front_compile called by the user
DirectCall == [fn |-> "v4front_compile"]

\* no machine runs the output yet
NoVM == [on |-> FALSE]

\* the caller's message buffer before the call: err is NULL or points to
\* cap bytes, none of them written yet ("?"); oob: some byte was written
\* outside these cap bytes; msg: the last message asked to be written
ErrBuf(null, cap) ==
  [null |-> null, cap |-> cap, mem |-> [i \in 1..(IF null THEN 0 ELSE cap) |-> "?"],
   oob |-> FALSE, called |-> FALSE, msg |-> <<>>]

control_depth == Len(control_stack)
word_count == Len(word_dict)

\* out_buf after the initialisation at the top of compile_internal
ZeroBuf ==
  [data |-> 0, size |-> 0, bytes |-> <<>>, words |-> 0, word_count |-> 0,
   entries |-> <<>>]

\* entry of compile_internal on a build with long of width bits; text,
\* chars: the source text and whether it is followed byte by byte;
\* budget: the most tokens read when it is not
InitCall(bits, text, chars, budget, eb) ==
  /\ call = DirectCall
  /\ data_space = DATA_SPACE_BASE
  /\ err_buf = eb
  /\ source = text
  /\ cursor = 0
  /\ by_char = chars
  /\ src_tokens = budget
  /\ vm = NoVM
  /\ pc = "run"
  /\ ret = "OK"
  /\ long_bits = bits
  /\ bc = NullStream
  /\ word_bc = NullStream
  /\ current_bc = "bc"
  /\ heap = <<>>
  /\ control_stack = <<>>
  /\ word_dict = <<>>
  /\ in_definition = FALSE
  /\ current_word_name = <<>>
  /\ out_buf = ZeroBuf
  /\ ntok = 0
  /\ last_token = <<>>
  /\ last_op = "none"
  /\ main_last = "none"
  /\ patch_out = FALSE
  /\ free_calls = 0

\* a call with err == NULL
InitState(bits, text, chars, budget) ==
  InitCall(bits, text, chars, budget, ErrBuf(TRUE, 0))

InitWith(bits) == InitState(bits, <<>>, FALSE, MaxTokens)

Init == InitWith(64)

\* *current_bc, *current_bc_size, *current_bc_cap
Cur == IF current_bc = "bc" THEN bc ELSE word_bc
Em(fail_at) == EmitCtx(Cur, heap, fail_at)

\* a scanner that takes the blank for the only whitespace
isspace_blank_only(c) == c = " "

\* isspace() in the C locale; "VT" stands for the vertical tab
isspace(c) == c \in {" ", "\t", "\n", "\r", "\f", "VT"}

\* *q for the cursor q into text: the terminating NUL at the end
NUL == "NUL"

\* source == NULL, kept apart from "" by a text no C string can be
NullSource == << NUL >>
CharAt(text, q) == IF q < Len(text) THEN text[q + 1] ELSE NUL

\* while (*p && isspace(*p)) p++
RECURSIVE SkipSpace(_, _)
SkipSpace(text, q) ==
  IF CharAt(text, q) # NUL /\ isspace(CharAt(text, q))
  THEN SkipSpace(text, q + 1) ELSE q

\* while (*p && !isspace(*p)) p++
RECURSIVE SkipToken(_, _)
SkipToken(text, q) ==
  IF CharAt(text, q) # NUL /\ ~isspace(CharAt(text, q))
  THEN SkipToken(text, q + 1) ELSE q

TOKEN_CAP == 256

\* the token cut out at cursor q: where it starts, where the cursor ends
\* up, and the text copied to token[256]; none: only whitespace was left
ExtractToken(text, q) ==
  LET token_start == SkipSpace(text, q)
      end == SkipToken(text, token_start)
      len == end - token_start
      token_len == IF len >= TOKEN_CAP THEN TOKEN_CAP - 1 ELSE len
  IN [none |-> CharAt(text, token_start) = NUL,
      start |-> token_start, end |-> end, len |-> len,
      text |-> SubSeq(text, token_start + 1, token_start + token_len)]

\* a token loop that cuts the token out and leaves the cursor before it
AfterToken_not_advanced == cursor

\* the cursor behind the token just read
AfterToken == IF by_char THEN ExtractToken(source, cursor).end ELSE cursor

\* the head of the loop body: the next token is cut out of the source
ReadHead(kind, token) ==
  /\ pc = "run"
  /\ IF by_char
     THEN ~ExtractToken(source, cursor).none /\ token = ExtractToken(source, cursor).text
     ELSE ntok < src_tokens
  /\ ntok' = ntok + 1
  /\ last_token' = token
  /\ last_op' = kind
  /\ UNCHANGED << env, out_buf, free_calls >>

\* a token is read by a handler that reads nothing more from the source
ReadToken(kind, token) ==
  /\ ReadHead(kind, token)
  /\ cursor' = AfterToken

\* a loop that stores what was emitted in the main stream, whichever stream
\* is current
Continue_main_stream(e, cs) ==
  /\ pc' = "run"
  /\ ret' = ret
  /\ bc' = StreamOf(e)
  /\ word_bc' = word_bc
  /\ heap' = e.heap
  /\ control_stack' = cs
  /\ patch_out' = (patch_out \/ e.out)
  /\ main_last' = IF current_bc = "bc" /\ Len(e.buf) > Len(bc.buf)
                  THEN last_op' ELSE main_last

\* the loop goes on with the streams of e and the control stack cs
Continue(e, cs) ==
  /\ pc' = "run"
  /\ ret' = ret
  /\ bc' = IF current_bc = "bc" THEN StreamOf(e) ELSE bc
  /\ word_bc' = IF current_bc = "word_bc" THEN StreamOf(e) ELSE word_bc
  /\ heap' = e.heap
  /\ control_stack' = cs
  /\ patch_out' = (patch_out \/ e.out)
  /\ main_last' = IF current_bc = "bc" /\ Len(e.buf) > Len(bc.buf)
                  THEN last_op' ELSE main_last

\* an error that is recorded while the token loop goes on
CLEANUP_AND_RETURN_and_continue(e, code) ==
  /\ pc' = "run"
  /\ ret' = code
  /\ bc' = bc
  /\ word_bc' = word_bc
  /\ heap' = e.heap
  /\ control_stack' = control_stack
  /\ patch_out' = patch_out
  /\ main_last' = main_last

\* CLEANUP_AND_RETURN(code): free(bc); if (word_bc) free(word_bc); return
CLEANUP_AND_RETURN(e, code) ==
  LET nbc == IF current_bc = "bc" THEN StreamOf(e) ELSE bc
      nwbc == IF current_bc = "word_bc" THEN StreamOf(e) ELSE word_bc
  IN /\ pc' = "err"
     /\ ret' = code
     /\ bc' = nbc
     /\ word_bc' = nwbc
     /\ heap' = free(free(e.heap, nbc.ptr), nwbc.ptr)
     /\ control_stack' = control_stack
     /\ patch_out' = (patch_out \/ e.out)
     /\ main_last' = main_last

\* a wild write killed the process
Crash ==
  /\ pc' = "crash"
  /\ UNCHANGED << ret, bc, word_bc, heap, control_stack, patch_out, main_last >>

\* end of a handler that emitted into e and leaves the control stack cs:
\* an append error returns through CLEANUP_AND_RETURN; a write outside the
\* allocation either kills the process (crash) or goes unnoticed
EndToken(e, cs, crash) ==
  IF e.err # "OK" THEN CLEANUP_AND_RETURN(e, e.err)
  ELSE IF e.wild /\ crash THEN Crash
  ELSE Continue(e, cs)

DefUnchanged ==
  UNCHANGED << word_dict, in_definition, current_word_name, current_bc,
               data_space >>

(***************************************************************************)
(* ':' and ';'                                                             *)
(***************************************************************************)
\* an error return of ':' or ';' with the heap left as h
ReturnErr(code, h) ==
  /\ pc' = "err"
  /\ ret' = code
  /\ heap' = h
  /\ UNCHANGED << bc, word_bc, control_stack, patch_out, main_last >>

\* the duplicate check done with strcmp instead of str_eq_ci
IsDuplicate_case_sensitive(name) ==
  \E i \in 1..word_count : strcmp_eq(word_dict[i].name, name)

\* the name is in the dictionary (the duplicate check of ':')
IsDuplicate(name) == \E i \in 1..word_count : str_eq_ci(word_dict[i].name, name)

\* ':' followed by name; name = <<>> when the source ends after ':'
\* the name cut out behind ':' : <<>> when only whitespace is left
NameAfterColon ==
  LET n == ExtractToken(source, AfterToken)
  IN [end |-> n.end,
      text |-> IF n.none THEN <<>> ELSE SubSeq(source, n.start + 1, n.end)]

TokColon(token, name) ==
  /\ ReadHead("COLON", token)
  /\ str_eq_ci(token, kw_COLON)
  /\ by_char => (in_definition \/ name = NameAfterColon.text)
  /\ cursor' = IF ~by_char THEN cursor
          ELSE IF in_definition THEN AfterToken ELSE NameAfterColon.end
  /\ IF in_definition
     THEN /\ ReturnErr("NestedColon", free(free(heap, bc.ptr), word_bc.ptr))
          /\ DefUnchanged
     ELSE IF name = <<>> \/ Len(name) >= NAME_CAP
     THEN /\ ReturnErr("ColonWithoutName", free(heap, bc.ptr))
          /\ DefUnchanged
     ELSE IF IsDuplicate(name)
     THEN /\ ReturnErr("DuplicateWord", free(heap, bc.ptr))
          /\ current_word_name' = name
          /\ UNCHANGED << word_dict, in_definition, current_bc, data_space >>
     ELSE IF word_count >= MAX_WORDS
     THEN /\ ReturnErr("DictionaryFull", free(heap, bc.ptr))
          /\ current_word_name' = name
          /\ UNCHANGED << word_dict, in_definition, current_bc, data_space >>
     ELSE /\ in_definition' = TRUE
          /\ current_word_name' = name
          /\ word_bc' = NullStream
          /\ current_bc' = "word_bc"
          /\ UNCHANGED << pc, ret, bc, heap, control_stack, word_dict,
                          patch_out, main_last, data_space >>

\* strncpy(dst, src, sizeof(dst) - 1) with the terminator set behind it
strncpy_name(src) ==
  IF Len(src) > NAME_CAP - 1 THEN SubSeq(src, 1, NAME_CAP - 1) ELSE src

\* ';' sealing the word code as it stands, with no RET appended
SealCode_without_ret(e) == e

\* ';' appends RET to the word bytecode before the word is added
SealCode(e) == append_byte(e, OP_RET)

TokSemi(token, fail_at) ==
  /\ ReadToken("SEMI", token)
  /\ str_eq_ci(token, kw_SEMI)
  /\ IF ~in_definition
     THEN /\ ReturnErr("SemicolonWithoutColon", free(heap, bc.ptr))
          /\ DefUnchanged
     ELSE LET e == SealCode(Em(fail_at))
              nbc == IF current_bc = "bc" THEN StreamOf(e) ELSE bc
              nwbc == IF current_bc = "word_bc" THEN StreamOf(e) ELSE word_bc
          IN IF e.err # "OK"
             THEN /\ pc' = "err"
                  /\ ret' = e.err
                  /\ bc' = nbc
                  /\ word_bc' = nwbc
                  /\ heap' = free(free(e.heap, nbc.ptr), nwbc.ptr)
                  /\ UNCHANGED << control_stack, patch_out, main_last >>
                  /\ DefUnchanged
             ELSE /\ word_dict' = Append(word_dict,
                       [name |-> strncpy_name(current_word_name),
                        code |-> nwbc.ptr, code_len |-> Len(nwbc.buf),
                        bytes |-> nwbc.buf])
                  /\ in_definition' = FALSE
                  /\ current_word_name' = <<>>
                  /\ word_bc' = NullStream
                  /\ current_bc' = "bc"
                  /\ bc' = nbc
                  /\ heap' = e.heap
                  /\ UNCHANGED << pc, ret, control_stack, patch_out, main_last,
                                  data_space >>

(***************************************************************************)
(* VARIABLE and CONSTANT.  The revision under src/ does not have them;     *)
(* the two handlers follow the specification of the compiler: VARIABLE     *)
(* takes the next token as a name, allocates one cell of data space and    *)
(* adds a dictionary entry with the body LIT <addr> RET; CONSTANT turns    *)
(* the integer literal emitted last on the current stream into a           *)
(* dictionary entry with the body LIT <value> RET.  Both are taken outside *)
(* a definition.                                                           *)
(***************************************************************************)
kw_VARIABLE == <<"V","A","R","I","A","B","L","E">>
kw_CONST == <<"C","O","N","S","T","A","N","T">>

\* an allocator that derives the address from the position in the dictionary
VariableAddr_by_index == DATA_SPACE_BASE + CELL * word_count

\* the address the next variable gets
VariableAddr == data_space

\* the entry added for name with the body LIT <imm32> RET, imm the four
\* bytes of the operand; its code is a new allocation
LitEntry(name, imm, kind) ==
  [name |-> strncpy_name(name), code |-> Len(heap) + 1, code_len |-> 6,
   bytes |-> << OP_LIT >> \o imm \o << OP_RET >>, kind |-> kind]

\* an entry is added and nothing is emitted
AddEntry(entry) ==
  /\ word_dict' = Append(word_dict, entry)
  /\ heap' = Append(heap, 0)
  /\ UNCHANGED << pc, ret, in_definition, current_word_name, current_bc,
                  control_stack, patch_out >>

\* the name that follows is refused, or missing
NameErr(name, without) ==
  IF name = <<>> THEN without
  ELSE IF IsDuplicate(name) THEN "DuplicateWord"
  ELSE IF word_count >= MAX_WORDS THEN "DictionaryFull"
  ELSE "OK"

TokVariable(token, name) ==
  /\ ReadHead("VARIABLE", token)
  /\ str_eq_ci(token, kw_VARIABLE)
  /\ by_char => name = NameAfterColon.text
  /\ cursor' = IF by_char THEN NameAfterColon.end ELSE cursor
  /\ IF NameErr(name, "VariableWithoutName") # "OK"
     THEN /\ ReturnErr(NameErr(name, "VariableWithoutName"),
                       free(free(heap, bc.ptr), word_bc.ptr))
          /\ DefUnchanged
     ELSE /\ AddEntry(LitEntry(name, LE32(VariableAddr), "Variable"))
          /\ data_space' = data_space + CELL
          /\ UNCHANGED << bc, word_bc, main_last >>

\* the test that looks at the length of the stream only
LitIsLast_any_emission == Len(Cur.buf) >= 5

\* the current stream ends with the LIT of the token read just before
LitIsLast == last_op = "INT" /\ Len(Cur.buf) >= 5

\* CONSTANT leaving the literal on the stream
DropLiteral_kept(s) == s

\* the stream s without the LIT <imm32> it ends with
DropLiteral(s) == [s EXCEPT !.buf = SubSeq(s.buf, 1, Len(s.buf) - 5)]

TokConst(token, name) ==
  /\ ReadHead("CONST", token)
  /\ str_eq_ci(token, kw_CONST)
  /\ by_char => name = NameAfterColon.text
  /\ cursor' = IF by_char THEN NameAfterColon.end ELSE cursor
  /\ IF ~LitIsLast
     THEN /\ ReturnErr("ConstantWithoutValue",
                       free(free(heap, bc.ptr), word_bc.ptr))
          /\ DefUnchanged
     ELSE IF NameErr(name, "ConstantWithoutName") # "OK"
     THEN /\ ReturnErr(NameErr(name, "ConstantWithoutName"),
                       free(free(heap, bc.ptr), word_bc.ptr))
          /\ DefUnchanged
     ELSE LET n == Len(Cur.buf)
              cut == DropLiteral(Cur)
          IN /\ AddEntry(LitEntry(name, SubSeq(Cur.buf, n - 3, n), "Constant"))
             /\ bc' = IF current_bc = "bc" THEN cut ELSE bc
             /\ word_bc' = IF current_bc = "word_bc" THEN cut ELSE word_bc
             /\ UNCHANGED << data_space, main_last >>

(***************************************************************************)
(* BEGIN ... UNTIL / WHILE ... REPEAT / AGAIN                              *)
(***************************************************************************)
\* the frame at the bottom of the stack taken for the current one
TopFrame_bottom == control_stack[1]

TopFrame == control_stack[control_depth]
Popped == SubSeq(control_stack, 1, control_depth - 1)

TokBegin(token) ==
  /\ ReadToken("BEGIN", token)
  /\ str_eq_ci(token, kw_BEGIN)
  /\ DefUnchanged
  /\ IF control_depth >= MAX_CONTROL_DEPTH
     THEN CLEANUP_AND_RETURN(Em(0), "ControlDepthExceeded")
     ELSE Continue(Em(0), Append(control_stack,
             [ControlFrame(BEGIN_CONTROL) EXCEPT !.begin_addr = Len(Cur.buf),
                                                 !.has_while = FALSE]))

\* the backward offset taken relative to the offset field, not to the
\* byte behind it
BranchBack_from_field(e, op, addr) ==
  LET e1 == append_byte(e, op)
      next_ip == Len(e1.buf)
  IN append_i16_le(e1, I16(addr - next_ip))

\* opcode op with a backward offset to addr: the tail of UNTIL and AGAIN
BranchBack(e, op, addr) ==
  LET e1 == append_byte(e, op)
      next_ip == Len(e1.buf) + 2
  IN append_i16_le(e1, I16(addr - next_ip))

TokUntil(token, fail_at) ==
  /\ ReadToken("UNTIL", token)
  /\ str_eq_ci(token, kw_UNTIL)
  /\ DefUnchanged
  /\ IF control_depth <= 0 \/ TopFrame.type # BEGIN_CONTROL
     THEN CLEANUP_AND_RETURN(Em(0), "UntilWithoutBegin")
     ELSE IF TopFrame.has_while
     THEN CLEANUP_AND_RETURN(Em(0), "UntilAfterWhile")
     ELSE EndToken(BranchBack(Em(fail_at), OP_JZ, TopFrame.begin_addr), Popped, FALSE)

\* WHILE that does not set has_while
TokWhile_without_flag(token, fail_at) ==
  /\ ReadToken("WHILE", token)
  /\ str_eq_ci(token, kw_WHILE)
  /\ DefUnchanged
  /\ IF control_depth <= 0 \/ TopFrame.type # BEGIN_CONTROL
     THEN CLEANUP_AND_RETURN(Em(0), "WhileWithoutBegin")
     ELSE IF TopFrame.has_while
     THEN CLEANUP_AND_RETURN(Em(0), "DuplicateWhile")
     ELSE LET e1 == append_byte(Em(fail_at), OP_JZ)
              patch_pos == Len(e1.buf)
              e2 == append_i16_le(e1, 0)
          IN EndToken(e2, [control_stack EXCEPT
                             ![control_depth].while_patch_addr = patch_pos], FALSE)

TokWhile(token, fail_at) ==
  /\ ReadToken("WHILE", token)
  /\ str_eq_ci(token, kw_WHILE)
  /\ DefUnchanged
  /\ IF control_depth <= 0 \/ TopFrame.type # BEGIN_CONTROL
     THEN CLEANUP_AND_RETURN(Em(0), "WhileWithoutBegin")
     ELSE IF TopFrame.has_while
     THEN CLEANUP_AND_RETURN(Em(0), "DuplicateWhile")
     ELSE LET e1 == append_byte(Em(fail_at), OP_JZ)
              patch_pos == Len(e1.buf)
              e2 == append_i16_le(e1, 0)
          IN EndToken(e2, [control_stack EXCEPT
                             ![control_depth].while_patch_addr = patch_pos,
                             ![control_depth].has_while = TRUE], FALSE)

TokRepeat(token, fail_at, crash) ==
  /\ ReadToken("REPEAT", token)
  /\ str_eq_ci(token, kw_REPEAT)
  /\ DefUnchanged
  /\ IF control_depth <= 0 \/ TopFrame.type # BEGIN_CONTROL
     THEN CLEANUP_AND_RETURN(Em(0), "RepeatWithoutBegin")
     ELSE IF ~TopFrame.has_while
     THEN CLEANUP_AND_RETURN(Em(0), "RepeatWithoutWhile")
     ELSE LET e1 == BranchBack(Em(fail_at), OP_JMP, TopFrame.begin_addr)
              jz_offset == I16(Len(e1.buf) - (TopFrame.while_patch_addr + 2))
              e2 == Patch(e1, TopFrame.while_patch_addr, jz_offset)
          IN EndToken(e2, Popped, crash)

TokAgain(token, fail_at) ==
  /\ ReadToken("AGAIN", token)
  /\ str_eq_ci(token, kw_AGAIN)
  /\ DefUnchanged
  /\ IF control_depth <= 0 \/ TopFrame.type # BEGIN_CONTROL
     THEN CLEANUP_AND_RETURN(Em(0), "AgainWithoutBegin")
     ELSE IF TopFrame.has_while
     THEN CLEANUP_AND_RETURN(Em(0), "AgainAfterWhile")
     ELSE EndToken(BranchBack(Em(fail_at), OP_JMP, TopFrame.begin_addr), Popped, FALSE)

(***************************************************************************)
(* DO ... LOOP / +LOOP, LEAVE                                              *)
(***************************************************************************)
\* DO that records the cursor in front of SWAP TOR TOR as do_addr
TokDo_addr_before(token, fail_at) ==
  /\ ReadToken("DO", token)
  /\ str_eq_ci(token, kw_DO)
  /\ DefUnchanged
  /\ IF control_depth >= MAX_CONTROL_DEPTH
     THEN CLEANUP_AND_RETURN(Em(0), "ControlDepthExceeded")
     ELSE LET e == append_ops(Em(fail_at), << OP_SWAP, OP_TOR, OP_TOR >>)
          IN EndToken(e, Append(control_stack,
                [ControlFrame(DO_CONTROL) EXCEPT !.do_addr = Len(Cur.buf),
                                                 !.leave_count = 0]), FALSE)

TokDo(token, fail_at) ==
  /\ ReadToken("DO", token)
  /\ str_eq_ci(token, kw_DO)
  /\ DefUnchanged
  /\ IF control_depth >= MAX_CONTROL_DEPTH
     THEN CLEANUP_AND_RETURN(Em(0), "ControlDepthExceeded")
     ELSE LET e == append_ops(Em(fail_at), << OP_SWAP, OP_TOR, OP_TOR >>)
          IN EndToken(e, Append(control_stack,
                [ControlFrame(DO_CONTROL) EXCEPT !.do_addr = Len(e.buf),
                                                 !.leave_count = 0]), FALSE)

\* the search for the DO frame run from the bottom of the stack
InnermostDo_outermost ==
  IF \E i \in 1..control_depth : control_stack[i].type = DO_CONTROL
  THEN CHOOSE i \in 1..control_depth :
         /\ control_stack[i].type = DO_CONTROL
         /\ \A j \in 1..(i - 1) : control_stack[j].type # DO_CONTROL
  ELSE 0

\* index of the innermost DO frame, 0 when there is none
InnermostDo ==
  IF \E i \in 1..control_depth : control_stack[i].type = DO_CONTROL
  THEN CHOOSE i \in 1..control_depth :
         /\ control_stack[i].type = DO_CONTROL
         /\ \A j \in (i + 1)..control_depth : control_stack[j].type # DO_CONTROL
  ELSE 0

TokLeave(token, fail_at) ==
  /\ ReadToken("LEAVE", token)
  /\ str_eq_ci(token, kw_LEAVE)
  /\ DefUnchanged
  /\ IF control_depth <= 0 \/ InnermostDo = 0
     THEN CLEANUP_AND_RETURN(Em(0), "LeaveWithoutDo")
     ELSE IF control_stack[InnermostDo].leave_count >= MAX_LEAVE_DEPTH
     THEN CLEANUP_AND_RETURN(Em(0), "LeaveDepthExceeded")
     ELSE LET e1 == append_ops(Em(fail_at),
                      << OP_FROMR, OP_FROMR, OP_DROP, OP_DROP, OP_JMP >>)
              patch_pos == Len(e1.buf)
              e2 == append_i16_le(e1, 0)
              d == InnermostDo
          IN EndToken(e2, [control_stack EXCEPT
                 ![d].leave_patch_addrs = Append(@, patch_pos),
                 ![d].leave_count = @ + 1], FALSE)

\* the loop over leave_patch_addrs at the end of LOOP and +LOOP
RECURSIVE PatchLeaves(_, _)
PatchLeaves(e, addrs) ==
  IF addrs = <<>> THEN e
  ELSE PatchLeaves(Patch(e, Head(addrs), I16(Len(e.buf) - (Head(addrs) + 2))),
                   Tail(addrs))

\* what LOOP and +LOOP emit from the comparison on, for the frame
LoopTail(e0, frame) ==
  LET e1 == append_ops(e0, << OP_FROMR, OP_OVER, OP_OVER, OP_LT, OP_JZ >>)
      jz_patch_pos == Len(e1.buf)
      e2 == append_i16_le(e1, 0)
      e3 == append_ops(e2, << OP_SWAP, OP_TOR, OP_TOR >>)
      e4 == BranchBack(e3, OP_JMP, frame.do_addr)
      e5 == Patch(e4, jz_patch_pos, I16(Len(e4.buf) - (jz_patch_pos + 2)))
      e6 == append_ops(e5, << OP_DROP, OP_DROP >>)
  IN PatchLeaves(e6, frame.leave_patch_addrs)

TokLoop(token, fail_at, crash) ==
  /\ ReadToken("LOOP", token)
  /\ str_eq_ci(token, kw_LOOP)
  /\ DefUnchanged
  /\ IF control_depth <= 0 \/ TopFrame.type # DO_CONTROL
     THEN CLEANUP_AND_RETURN(Em(0), "LoopWithoutDo")
     ELSE LET e1 == append_byte(Em(fail_at), OP_FROMR)
              e2 == append_i32_le(append_byte(e1, OP_LIT), 1)
              e3 == append_byte(e2, OP_ADD)
          IN EndToken(LoopTail(e3, TopFrame), Popped, crash)

TokPLoop(token, fail_at, crash) ==
  /\ ReadToken("PLOOP", token)
  /\ str_eq_ci(token, kw_PLOOP)
  /\ DefUnchanged
  /\ IF control_depth <= 0 \/ TopFrame.type # DO_CONTROL
     THEN CLEANUP_AND_RETURN(Em(0), "PLoopWithoutDo")
     ELSE LET e1 == append_ops(Em(fail_at), << OP_FROMR, OP_ADD >>)
          IN EndToken(LoopTail(e1, TopFrame), Popped, crash)

(***************************************************************************)
(* IF ... ELSE ... THEN, EXIT                                              *)
(***************************************************************************)
TokIf(token, fail_at) ==
  /\ ReadToken("IF", token)
  /\ str_eq_ci(token, kw_IF)
  /\ DefUnchanged
  /\ IF control_depth >= MAX_CONTROL_DEPTH
     THEN CLEANUP_AND_RETURN(Em(0), "ControlDepthExceeded")
     ELSE LET e1 == append_byte(Em(fail_at), OP_JZ)
              patch_pos == Len(e1.buf)
              e2 == append_i16_le(e1, 0)
          IN EndToken(e2, Append(control_stack,
                [ControlFrame(IF_CONTROL) EXCEPT !.jz_patch_addr = patch_pos,
                                                 !.jmp_patch_addr = 0,
                                                 !.has_else = FALSE]), FALSE)

\* ELSE that makes the JZ of IF target the JMP it emits
TokElse_jz_to_jmp(token, fail_at, crash) ==
  /\ ReadToken("ELSE", token)
  /\ str_eq_ci(token, kw_ELSE)
  /\ DefUnchanged
  /\ IF control_depth <= 0 \/ TopFrame.type # IF_CONTROL
     THEN CLEANUP_AND_RETURN(Em(0), "ElseWithoutIf")
     ELSE IF TopFrame.has_else
     THEN CLEANUP_AND_RETURN(Em(0), "DuplicateElse")
     ELSE LET e1 == append_byte(Em(fail_at), OP_JMP)
              jmp_patch_pos == Len(e1.buf)
              e2 == append_i16_le(e1, 0)
              jz_offset == I16(Len(e2.buf) - 3 - (TopFrame.jz_patch_addr + 2))
              e3 == Patch(e2, TopFrame.jz_patch_addr, jz_offset)
          IN EndToken(e3, [control_stack EXCEPT
                             ![control_depth].jmp_patch_addr = jmp_patch_pos,
                             ![control_depth].has_else = TRUE], crash)

TokElse(token, fail_at, crash) ==
  /\ ReadToken("ELSE", token)
  /\ str_eq_ci(token, kw_ELSE)
  /\ DefUnchanged
  /\ IF control_depth <= 0 \/ TopFrame.type # IF_CONTROL
     THEN CLEANUP_AND_RETURN(Em(0), "ElseWithoutIf")
     ELSE IF TopFrame.has_else
     THEN CLEANUP_AND_RETURN(Em(0), "DuplicateElse")
     ELSE LET e1 == append_byte(Em(fail_at), OP_JMP)
              jmp_patch_pos == Len(e1.buf)
              e2 == append_i16_le(e1, 0)
              jz_offset == I16(Len(e2.buf) - (TopFrame.jz_patch_addr + 2))
              e3 == Patch(e2, TopFrame.jz_patch_addr, jz_offset)
          IN EndToken(e3, [control_stack EXCEPT
                             ![control_depth].jmp_patch_addr = jmp_patch_pos,
                             ![control_depth].has_else = TRUE], crash)

TokThen(token, crash) ==
  /\ ReadToken("THEN", token)
  /\ str_eq_ci(token, kw_THEN)
  /\ DefUnchanged
  /\ IF control_depth <= 0 \/ TopFrame.type # IF_CONTROL
     THEN CLEANUP_AND_RETURN(Em(0), "ThenWithoutIf")
     ELSE LET site == IF TopFrame.has_else THEN TopFrame.jmp_patch_addr
                      ELSE TopFrame.jz_patch_addr
              e == Patch(Em(0), site, I16(Len(Cur.buf) - (site + 2)))
          IN EndToken(e, Popped, crash)

\* EXIT that is refused in main code
TokExit_only_in_definition(token, fail_at) ==
  /\ ReadToken("EXIT", token)
  /\ str_eq_ci(token, kw_EXIT)
  /\ DefUnchanged
  /\ IF in_definition
     THEN EndToken(append_byte(Em(fail_at), OP_RET), control_stack, FALSE)
     ELSE CLEANUP_AND_RETURN(Em(0), "UnknownToken")

TokExit(token, fail_at) ==
  /\ ReadToken("EXIT", token)
  /\ str_eq_ci(token, kw_EXIT)
  /\ DefUnchanged
  /\ EndToken(append_byte(Em(fail_at), OP_RET), control_stack, FALSE)

(***************************************************************************)
(* Dictionary lookup, integer literal, primitives, unknown token.          *)
(***************************************************************************)
\* the lookup loop when it also finds the definition that is still open,
\* under the index it will get
LookupWord_with_current(token) ==
  IF \E i \in 1..word_count : str_eq_ci(token, word_dict[i].name)
  THEN (CHOOSE i \in 1..word_count :
          /\ str_eq_ci(token, word_dict[i].name)
          /\ \A j \in 1..(i - 1) : ~str_eq_ci(token, word_dict[j].name)) - 1
  ELSE IF in_definition /\ str_eq_ci(token, current_word_name) THEN word_count
  ELSE -1

\* the lookup loop when it yields the 1-based position of the entry
LookupWord_one_based(token) ==
  IF \E i \in 1..word_count : str_eq_ci(token, word_dict[i].name)
  THEN CHOOSE i \in 1..word_count :
          /\ str_eq_ci(token, word_dict[i].name)
          /\ \A j \in 1..(i - 1) : ~str_eq_ci(token, word_dict[j].name)
  ELSE -1

\* word_idx of the lookup loop (0-based), -1 when no entry matches
LookupWord(token) ==
  IF \E i \in 1..word_count : str_eq_ci(token, word_dict[i].name)
  THEN (CHOOSE i \in 1..word_count :
          /\ str_eq_ci(token, word_dict[i].name)
          /\ \A j \in 1..(i - 1) : ~str_eq_ci(token, word_dict[j].name)) - 1
  ELSE -1

\* J: R> R> R> DUP >R >R >R
J_ops == << OP_FROMR, OP_FROMR, OP_FROMR, OP_DUP, OP_TOR, OP_TOR, OP_TOR >>

\* K: R> x 5, DUP, >R x 5
K_ops ==
  [i \in 1..5 |-> OP_FROMR] \o << OP_DUP >> \o [i \in 1..5 |-> OP_TOR]

\* the operator chain: name, opcodes emitted, compared without case
PrimTable ==
  << [name |-> <<"D","U","P">>, ops |-> <<OP_DUP>>, ci |-> TRUE],
     [name |-> <<"D","R","O","P">>, ops |-> <<OP_DROP>>, ci |-> TRUE],
     [name |-> <<"S","W","A","P">>, ops |-> <<OP_SWAP>>, ci |-> TRUE],
     [name |-> <<"O","V","E","R">>, ops |-> <<OP_OVER>>, ci |-> TRUE],
     [name |-> <<">","R">>, ops |-> <<OP_TOR>>, ci |-> TRUE],
     [name |-> <<"R",">">>, ops |-> <<OP_FROMR>>, ci |-> TRUE],
     [name |-> <<"R","@">>, ops |-> <<OP_RFETCH>>, ci |-> TRUE],
     [name |-> <<"I">>, ops |-> <<OP_RFETCH>>, ci |-> TRUE],
     [name |-> <<"J">>, ops |-> J_ops, ci |-> TRUE],
     [name |-> <<"K">>, ops |-> K_ops, ci |-> TRUE],
     [name |-> <<"+">>, ops |-> <<OP_ADD>>, ci |-> FALSE],
     [name |-> <<"-">>, ops |-> <<OP_SUB>>, ci |-> FALSE],
     [name |-> <<"*">>, ops |-> <<OP_MUL>>, ci |-> FALSE],
     [name |-> <<"/">>, ops |-> <<OP_DIV>>, ci |-> FALSE],
     [name |-> <<"M","O","D">>, ops |-> <<OP_MOD>>, ci |-> TRUE],
     [name |-> <<"=">>, ops |-> <<OP_EQ>>, ci |-> FALSE],
     [name |-> <<"=","=">>, ops |-> <<OP_EQ>>, ci |-> FALSE],
     [name |-> <<"<",">">>, ops |-> <<OP_NE>>, ci |-> FALSE],
     [name |-> <<"!","=">>, ops |-> <<OP_NE>>, ci |-> FALSE],
     [name |-> <<"<">>, ops |-> <<OP_LT>>, ci |-> FALSE],
     [name |-> <<"<","=">>, ops |-> <<OP_LE>>, ci |-> FALSE],
     [name |-> <<">">>, ops |-> <<OP_GT>>, ci |-> FALSE],
     [name |-> <<">","=">>, ops |-> <<OP_GE>>, ci |-> FALSE],
     [name |-> <<"A","N","D">>, ops |-> <<OP_AND>>, ci |-> TRUE],
     [name |-> <<"O","R">>, ops |-> <<OP_OR>>, ci |-> TRUE],
     [name |-> <<"X","O","R">>, ops |-> <<OP_XOR>>, ci |-> TRUE],
     [name |-> <<"I","N","V","E","R","T">>, ops |-> <<OP_INVERT>>, ci |-> TRUE],
     [name |-> <<"@">>, ops |-> <<OP_LOAD>>, ci |-> FALSE],
     [name |-> <<"!">>, ops |-> <<OP_STORE>>, ci |-> FALSE] >>

PrimMatches(token, i) ==
  IF PrimTable[i].ci THEN str_eq_ci(token, PrimTable[i].name)
  ELSE strcmp_eq(token, PrimTable[i].name)

\* the opcodes of the first branch of the operator chain that matches,
\* from branch i on; <<>> when none does (found = false)
RECURSIVE PrimOpsFrom(_, _)
PrimOpsFrom(token, i) ==
  IF i > Len(PrimTable) THEN <<>>
  ELSE IF PrimMatches(token, i) THEN PrimTable[i].ops
  ELSE PrimOpsFrom(token, i + 1)

PrimOps(token) == PrimOpsFrom(token, 1)

\* the chain without the dictionary lookup
Dispatch_without_lookup(token) ==
  IF IsKeyword(token) THEN "KEYWORD"
  ELSE IF try_parse_int(token, long_bits).ok THEN "INT"
  ELSE IF PrimOps(token) # <<>> THEN "PRIM"
  ELSE "UNKNOWN"

\* the chain with the integer test moved in front of the dictionary lookup
Dispatch_int_first(token) ==
  IF IsKeyword(token) THEN "KEYWORD"
  ELSE IF try_parse_int(token, long_bits).ok THEN "INT"
  ELSE IF LookupWord(token) >= 0 THEN "WORD"
  ELSE IF PrimOps(token) # <<>> THEN "PRIM"
  ELSE "UNKNOWN"

\* the chain with the operator chain moved in front of the dictionary lookup
Dispatch_prim_first(token) ==
  IF IsKeyword(token) THEN "KEYWORD"
  ELSE IF PrimOps(token) # <<>> THEN "PRIM"
  ELSE IF LookupWord(token) >= 0 THEN "WORD"
  ELSE IF try_parse_int(token, long_bits).ok THEN "INT"
  ELSE "UNKNOWN"

\* the branch of the chain behind the keywords that takes the token:
\* dictionary lookup, then integer literal, then the operator chain
Dispatch(token) ==
  IF IsKeyword(token) THEN "KEYWORD"
  ELSE IF LookupWord(token) >= 0 THEN "WORD"
  ELSE IF try_parse_int(token, long_bits).ok THEN "INT"
  ELSE IF PrimOps(token) # <<>> THEN "PRIM"
  ELSE "UNKNOWN"

TokWord(token, fail_at) ==
  /\ ReadToken("WORD", token)
  /\ Dispatch(token) = "WORD"
  /\ DefUnchanged
  /\ EndToken(append_i16_le(append_byte(Em(fail_at), OP_CALL), LookupWord(token)),
              control_stack, FALSE)

TokInt(token, fail_at) ==
  /\ ReadToken("INT", token)
  /\ Dispatch(token) = "INT"
  /\ DefUnchanged
  /\ EndToken(append_i32_le(append_byte(Em(fail_at), OP_LIT),
                            try_parse_int(token, long_bits).val),
              control_stack, FALSE)

TokPrim(token, fail_at) ==
  /\ ReadToken("PRIM", token)
  /\ Dispatch(token) = "PRIM"
  /\ DefUnchanged
  /\ EndToken(append_ops(Em(fail_at), PrimOps(token)), control_stack, FALSE)

TokUnknown(token) ==
  /\ ReadToken("UNKNOWN", token)
  /\ Dispatch(token) = "UNKNOWN"
  /\ DefUnchanged
  /\ CLEANUP_AND_RETURN(Em(0), "UnknownToken")

(***************************************************************************)
(* Empty input, end of input (finalization), v4front_free.                 *)
(***************************************************************************)
\* source is NULL or "": the early return before the token loop
EmptyInput(fail_at) ==
  /\ pc = "run"
  /\ ntok = 0
  /\ by_char => source \in { NullSource, <<>> }
  /\ last_op' = "EMPTY"
  /\ LET e == append_byte(Em(fail_at), OP_RET)
     IN IF e.err # "OK"
        THEN /\ CLEANUP_AND_RETURN(e, e.err)
             /\ out_buf' = out_buf
        ELSE /\ pc' = "ok"
             /\ ret' = "OK"
             /\ bc' = StreamOf(e)
             /\ heap' = e.heap
             /\ out_buf' = [out_buf EXCEPT !.data = e.ptr, !.size = Len(e.buf),
                                           !.bytes = e.buf]
             /\ UNCHANGED << word_bc, control_stack, patch_out, main_last >>
  /\ DefUnchanged
  /\ UNCHANGED << env, cursor, ntok, last_token, free_calls >>

RECURSIVE FreeAll(_, _)
FreeAll(h, ps) == IF ps = <<>> THEN h ELSE FreeAll(free(h, Head(ps)), Tail(ps))

Zeros(k) == [i \in 1..k |-> 0]

\* the unclosed-structure check reading the oldest frame
UnclosedFrame_oldest == control_stack[1]

\* the frame the unclosed-structure check reads:
\* control_stack[control_depth - 1]
UnclosedFrame == control_stack[control_depth]

\* the error of the unclosed-structure check for the frame on top
UnclosedErr(frame) ==
  IF frame.type = IF_CONTROL THEN "UnclosedIf"
  ELSE IF frame.type = DO_CONTROL THEN "UnclosedDo"
  ELSE "UnclosedBegin"

\* out_buf->words[1..k] once k names are copied; names are allocations
\* wp + 1 .. wp + k
OutWords(wp, k) ==
  [i \in 1..k |-> [name |-> wp + i, name_str |-> word_dict[i].name,
                   code |-> word_dict[i].code,
                   code_len |-> word_dict[i].code_len,
                   bytes |-> word_dict[i].bytes]]

\* the check for an unclosed word definition, left out
UnclosedDefinition_skipped == FALSE

\* the check for an unclosed word definition
UnclosedDefinition == in_definition

\* the "last instruction is an unconditional jump" test
needs_ret(buf) == ~(Len(buf) >= 3 /\ buf[Len(buf) - 2] = OP_JMP)

\* everything after the token loop; fail_at numbers the allocation requests
\* of this step: the words array, one strdup per word, the growth for RET
EndOfInputAt(fail_at) ==
  /\ pc = "run"
  /\ by_char => /\ source \notin { NullSource, <<>> }
                /\ ExtractToken(source, cursor).none
  /\ cursor' = IF by_char THEN ExtractToken(source, cursor).start ELSE cursor
  /\ last_op' = "EOI"
  /\ DefUnchanged
  /\ UNCHANGED << env, ntok, last_token, free_calls >>
  /\ IF control_depth > 0
     THEN CLEANUP_AND_RETURN(Em(0), UnclosedErr(UnclosedFrame)) /\ out_buf' = out_buf
     ELSE IF UnclosedDefinition
     THEN CLEANUP_AND_RETURN(Em(0), "UnclosedColon") /\ out_buf' = out_buf
     ELSE IF word_count > 0 /\ fail_at = 1
     THEN \* malloc of the words array fails; out_buf->words is NULL
          CLEANUP_AND_RETURN(Em(0), "OutOfMemory") /\ out_buf' = out_buf
     ELSE IF word_count > 0 /\ fail_at \in 2..(word_count + 1)
     THEN \* strdup of name fail_at - 1 fails: the names copied so far and
          \* the array are freed, out_buf->words keeps pointing to it
          LET wp == Len(heap) + 1
              k == fail_at - 2
              h1 == heap \o <<0>> \o Zeros(k)
              h2 == free(FreeAll(h1, [i \in 1..k |-> wp + i]), wp)
          IN /\ CLEANUP_AND_RETURN(EmitCtx(Cur, h2, 0), "OutOfMemory")
             /\ out_buf' = [out_buf EXCEPT !.words = wp]
     ELSE LET n == word_count
              wp == IF n > 0 THEN Len(heap) + 1 ELSE 0
              h1 == IF n > 0 THEN heap \o <<0>> \o Zeros(n) ELSE heap
              ob1 == [out_buf EXCEPT !.words = wp, !.word_count = n,
                                     !.entries = OutWords(wp, n)]
              e0 == [EmitCtx(Cur, h1, fail_at) EXCEPT
                       !.nalloc = IF n > 0 THEN n + 1 ELSE 0]
              e == IF needs_ret(Cur.buf) THEN append_byte(e0, OP_RET) ELSE e0
          IN IF e.err # "OK"
             THEN CLEANUP_AND_RETURN(e, e.err) /\ out_buf' = ob1
             ELSE /\ pc' = "ok"
                  /\ ret' = "OK"
                  /\ bc' = IF current_bc = "bc" THEN StreamOf(e) ELSE bc
                  /\ word_bc' = IF current_bc = "word_bc" THEN StreamOf(e) ELSE word_bc
                  /\ heap' = e.heap
                  /\ out_buf' = [ob1 EXCEPT !.data = bc'.ptr,
                                            !.size = Len(bc'.buf),
                                            !.bytes = bc'.buf]
                  /\ UNCHANGED << control_stack, patch_out, main_last >>

EndOfInput == \E fail_at \in 0..(word_count + 2) : EndOfInputAt(fail_at)

\* v4front_free without the reset of buf->words and buf->word_count
v4front_free_keeps_words(null, ob, h) ==
  IF null THEN [buf |-> ob, heap |-> h]
  ELSE LET h1 == IF ob.words # 0
                 THEN free(FreeAll(h,
                        [i \in 1..(2 * ob.word_count) |->
                           IF i % 2 = 1 THEN ob.entries[(i + 1) \div 2].name
                           ELSE ob.entries[i \div 2].code]), ob.words)
                 ELSE h
           h2 == IF ob.data # 0 THEN free(h1, ob.data) ELSE h1
           ob2 == IF ob.data # 0
                  THEN [ob EXCEPT !.data = 0, !.size = 0, !.bytes = <<>>]
                  ELSE ob
       IN [buf |-> ob2, heap |-> h2]

\* v4front_free(buf) on the handle ob with the heap h; null: buf == NULL
v4front_free(null, ob, h) ==
  IF null THEN [buf |-> ob, heap |-> h]
  ELSE LET h1 == IF ob.words # 0
                 THEN free(FreeAll(h,
                        [i \in 1..(2 * ob.word_count) |->
                           IF i % 2 = 1 THEN ob.entries[(i + 1) \div 2].name
                           ELSE ob.entries[i \div 2].code]), ob.words)
                 ELSE h
           ob1 == IF ob.words # 0
                  THEN [ob EXCEPT !.words = 0, !.word_count = 0, !.entries = <<>>]
                  ELSE ob
           h2 == IF ob.data # 0 THEN free(h1, ob.data) ELSE h1
           ob2 == IF ob.data # 0
                  THEN [ob1 EXCEPT !.data = 0, !.size = 0, !.bytes = <<>>]
                  ELSE ob1
       IN [buf |-> ob2, heap |-> h2]

\* a call of v4front_free after v4front_compile has returned
Free(null) ==
  /\ pc \in {"ok", "err"}
  /\ free_calls < MaxFrees
  /\ free_calls' = free_calls + 1
  /\ last_op' = IF null THEN "FREE_NULL" ELSE "FREE"
  /\ out_buf' = v4front_free(null, out_buf, heap).buf
  /\ heap' = v4front_free(null, out_buf, heap).heap
  /\ UNCHANGED << pc, ret, env, cursor, bc, word_bc, current_bc, control_stack,
                  word_dict, in_definition, current_word_name, ntok, last_token,
                  patch_out, main_last, data_space >>

(***************************************************************************)
(* Source texts explored: tokens and names.                                *)
(***************************************************************************)
tk_A == <<"A">>
tk_a == <<"a">>
tk_42 == <<"4","2">>
tk_DUP == <<"D","U","P">>
tk_HELLO == <<"H","E","L","L","O">>
tk_if == <<"i","f">>
\* 2^31, one above INT32_MAX
tk_2147483648 == <<"2","1","4","7","4","8","3","6","4","8">>

\* names that may follow ':' ; <<>>: the source ends after ':'
Names == { <<>>, tk_A, tk_a, tk_42 }

\* tokens offered to the part of the chain behind the keywords
Tokens == { kw_IF, tk_A, tk_42, tk_2147483648, tk_DUP, tk_HELLO }

\* whether the allocation request of a token step fails (1) or not (0)
Fail == 0..1

Next ==
  \/ \E name \in Names : TokColon(kw_COLON, name)
  \/ \E fail_at \in Fail : TokSemi(kw_SEMI, fail_at)
  \/ TokBegin(kw_BEGIN)
  \/ \E fail_at \in Fail : TokDo(kw_DO, fail_at)
  \/ \E fail_at \in Fail : TokUntil(kw_UNTIL, fail_at)
  \/ \E fail_at \in Fail : TokWhile(kw_WHILE, fail_at)
  \/ \E fail_at \in Fail, crash \in BOOLEAN : TokRepeat(kw_REPEAT, fail_at, crash)
  \/ \E fail_at \in Fail : TokAgain(kw_AGAIN, fail_at)
  \/ \E fail_at \in Fail : TokLeave(kw_LEAVE, fail_at)
  \/ \E fail_at \in Fail, crash \in BOOLEAN : TokLoop(kw_LOOP, fail_at, crash)
  \/ \E fail_at \in Fail, crash \in BOOLEAN : TokPLoop(kw_PLOOP, fail_at, crash)
  \/ \E token \in {kw_IF, tk_if}, fail_at \in Fail : TokIf(token, fail_at)
  \/ \E fail_at \in Fail, crash \in BOOLEAN : TokElse(kw_ELSE, fail_at, crash)
  \/ \E crash \in BOOLEAN : TokThen(kw_THEN, crash)
  \/ \E fail_at \in Fail : TokExit(kw_EXIT, fail_at)
  \/ \E token \in Tokens, fail_at \in Fail : TokWord(token, fail_at)
  \/ \E token \in Tokens, fail_at \in Fail : TokInt(token, fail_at)
  \/ \E token \in Tokens, fail_at \in Fail : TokPrim(token, fail_at)
  \/ \E token \in Tokens : TokUnknown(token)
  \/ \E fail_at \in Fail : EmptyInput(fail_at)
  \/ EndOfInput

Spec == Init /\ [][Next]_vars

(***************************************************************************)
(* Compilation followed by calls of v4front_free on the handle; the source *)
(* texts are definitions, literals, calls and unknown tokens.              *)
(***************************************************************************)
NextFree ==
  \/ \E name \in Names : TokColon(kw_COLON, name)
  \/ \E fail_at \in Fail : TokSemi(kw_SEMI, fail_at)
  \/ \E token \in Tokens, fail_at \in Fail : TokWord(token, fail_at)
  \/ \E token \in Tokens, fail_at \in Fail : TokInt(token, fail_at)
  \/ \E token \in Tokens : TokUnknown(token)
  \/ \E fail_at \in Fail : EmptyInput(fail_at)
  \/ EndOfInput
  \/ \E null \in BOOLEAN : Free(null)

SpecFree == Init /\ [][NextFree]_vars

(***************************************************************************)
(* Literals, names and operators, on builds with a 32-bit and with a       *)
(* 64-bit long.                                                            *)
(***************************************************************************)
tk_0x4000 == <<"0","x","4","0","0","0">>
tk_5x == <<"5","x">>
tk_plus == <<"+">>
\* -2^31 - 1, one below INT32_MIN
tk_m2147483649 == <<"-","2","1","4","7","4","8","3","6","4","9">>
\* above 2^63
tk_huge == <<"9","9","9","9","9","9","9","9","9","9","9","9","9","9","9","9","9","9","9","9">>

TokensLex ==
  { tk_42, tk_0x4000, tk_5x, tk_plus, tk_2147483648, tk_m2147483649, tk_huge }

LongWidths == {32, 64}

InitLex == \E bits \in LongWidths : InitWith(bits)

NextLex ==
  \/ \E name \in Names : TokColon(kw_COLON, name)
  \/ \E fail_at \in Fail : TokSemi(kw_SEMI, fail_at)
  \/ \E token \in TokensLex, fail_at \in Fail : TokWord(token, fail_at)
  \/ \E token \in TokensLex, fail_at \in Fail : TokInt(token, fail_at)
  \/ \E token \in TokensLex, fail_at \in Fail : TokPrim(token, fail_at)
  \/ \E token \in TokensLex : TokUnknown(token)
  \/ \E fail_at \in Fail : EmptyInput(fail_at)
  \/ EndOfInput

SpecLex == InitLex /\ [][NextLex]_vars

(***************************************************************************)
(* Source texts in which every control structure lies within one stream:   *)
(* ':' and ';' stand where no control frame is open.                       *)
(***************************************************************************)
NextNested ==
  \/ control_depth = 0 /\ \E name \in Names : TokColon(kw_COLON, name)
  \/ control_depth = 0 /\ \E fail_at \in Fail : TokSemi(kw_SEMI, fail_at)
  \/ TokBegin(kw_BEGIN)
  \/ \E fail_at \in Fail : TokDo(kw_DO, fail_at)
  \/ \E fail_at \in Fail : TokUntil(kw_UNTIL, fail_at)
  \/ \E fail_at \in Fail : TokWhile(kw_WHILE, fail_at)
  \/ \E fail_at \in Fail, crash \in BOOLEAN : TokRepeat(kw_REPEAT, fail_at, crash)
  \/ \E fail_at \in Fail : TokAgain(kw_AGAIN, fail_at)
  \/ \E fail_at \in Fail : TokLeave(kw_LEAVE, fail_at)
  \/ \E fail_at \in Fail, crash \in BOOLEAN : TokLoop(kw_LOOP, fail_at, crash)
  \/ \E fail_at \in Fail, crash \in BOOLEAN : TokPLoop(kw_PLOOP, fail_at, crash)
  \/ \E token \in {kw_IF, tk_if}, fail_at \in Fail : TokIf(token, fail_at)
  \/ \E fail_at \in Fail, crash \in BOOLEAN : TokElse(kw_ELSE, fail_at, crash)
  \/ \E crash \in BOOLEAN : TokThen(kw_THEN, crash)
  \/ \E fail_at \in Fail : TokExit(kw_EXIT, fail_at)
  \/ \E token \in Tokens, fail_at \in Fail : TokWord(token, fail_at)
  \/ \E token \in Tokens, fail_at \in Fail : TokInt(token, fail_at)
  \/ \E token \in Tokens, fail_at \in Fail : TokPrim(token, fail_at)
  \/ \E token \in Tokens : TokUnknown(token)
  \/ \E fail_at \in Fail : EmptyInput(fail_at)
  \/ EndOfInput

SpecNested == Init /\ [][NextNested]_vars

(***************************************************************************)
(* Source texts of DO loops with many LEAVEs: at most two DO frames, with  *)
(* an IF around some of the LEAVEs.                                        *)
(***************************************************************************)
MaxLeaveTokens == 12

InitLeave == InitState(64, <<>>, FALSE, MaxLeaveTokens)

NextLeave ==
  \/ control_depth < 2 /\ TokDo(kw_DO, 0)
  \/ \E fail_at \in Fail : TokLeave(kw_LEAVE, fail_at)
  \/ control_depth \in 1..2 /\ TopFrame.type = DO_CONTROL /\ TokIf(kw_IF, 0)
  \/ TokThen(kw_THEN, FALSE)
  \/ \E crash \in BOOLEAN : TokLoop(kw_LOOP, 0, crash)
  \/ EndOfInput

SpecLeave == InitLeave /\ [][NextLeave]_vars

(***************************************************************************)
(* The message written into the caller's buffer (err, err_cap).            *)
(***************************************************************************)
\* err[i] = b; a write through NULL or at or beyond err_cap is outside the
\* buffer
Poke(eb, i, b) ==
  IF eb.null \/ i >= eb.cap THEN [eb EXCEPT !.oob = TRUE]
  ELSE [eb EXCEPT !.mem[i + 1] = b]

\* memcpy(err + at, src, n)
RECURSIVE memcpy(_, _, _, _)
memcpy(eb, at, src, n) ==
  IF n = 0 THEN eb
  ELSE Poke(memcpy(eb, at, src, n - 1), at + n - 1, src[n])

\* write_error_msg truncating one byte too late
write_error_msg_one_late(eb, msg) ==
  IF ~eb.null /\ eb.cap > 0
  THEN LET len == IF Len(msg) > eb.cap THEN eb.cap - 1 ELSE Len(msg)
       IN Poke(memcpy(eb, 0, msg, len), len, 0)
  ELSE eb

write_error_msg(eb, msg) ==
  IF ~eb.null /\ eb.cap > 0
  THEN LET len == IF Len(msg) >= eb.cap THEN eb.cap - 1 ELSE Len(msg)
       IN Poke(memcpy(eb, 0, msg, len), len, 0)
  ELSE eb

\* set_error of front_compile.cpp
set_error(eb, message) ==
  IF ~eb.null /\ eb.cap # 0
  THEN LET length == IF Len(message) >= eb.cap THEN eb.cap - 1
                     ELSE Len(message)
       IN Poke(memcpy(eb, 0, message, length), length, 0)
  ELSE eb

\* set_error_with_token of front_compile.cpp
set_error_with_token(eb, prefix, token) ==
  IF eb.null \/ eb.cap = 0 THEN eb
  ELSE LET prefix_len == Len(prefix)
           token_len == Len(token)
           total_len == IF prefix_len + token_len >= eb.cap THEN eb.cap - 1
                        ELSE prefix_len + token_len
           copy_prefix == IF prefix_len < total_len THEN prefix_len
                          ELSE total_len
           copy_token == IF total_len > copy_prefix
                         THEN total_len - copy_prefix ELSE 0
           e1 == memcpy(eb, 0, prefix, copy_prefix)
           e2 == IF copy_token # 0
                 THEN memcpy(e1, copy_prefix, token, copy_token) ELSE e1
       IN Poke(e2, total_len, 0)

msg_output_buffer_is_NULL ==
  << "o","u","t","p","u","t"," ","b","u","f","f","e","r"," ","i","s"," ",
     "N","U","L","L" >>
msg_out_buf_is_null ==
  << "o","u","t","_","b","u","f"," ","i","s"," ","n","u","l","l" >>
msg_unknown_token ==
  << "u","n","k","n","o","w","n"," ","t","o","k","e","n",":"," " >>

\* the message msg was asked for and the buffer is left as eb
Wrote(eb, msg) == [eb EXCEPT !.called = TRUE, !.msg = msg]

\* a return that writes a message and does nothing else
ReturnWith(code, op, eb) ==
  /\ pc' = "err"
  /\ ret' = code
  /\ last_op' = op
  /\ err_buf' = eb
  /\ UNCHANGED << long_bits, bc, word_bc, current_bc, heap, control_stack,
                  word_dict, in_definition, current_word_name, out_buf, ntok,
                  last_token, main_last, patch_out, free_calls, source,
                  cursor, by_char, src_tokens, vm, call, data_space >>

\* v4front_compile called with out_buf == NULL
NullOutBuf ==
  /\ pc = "run" /\ ntok = 0
  /\ ReturnWith("BufferTooSmall", "NULL_OUT",
        Wrote(write_error_msg(err_buf, msg_output_buffer_is_NULL),
              msg_output_buffer_is_NULL))

\* v4front_compile after compile_internal returned an error: the message
\* of the code, msg, is written
WriteError(msg) ==
  /\ pc = "err"
  /\ ~err_buf.called
  /\ ReturnWith(ret, "WRITE_ERROR", Wrote(write_error_msg(err_buf, msg), msg))

\* front_compile.cpp: v4front_compile called with out_buf == NULL
OldNullOutBuf ==
  /\ pc = "run" /\ ntok = 0
  /\ ReturnWith("-1", "OLD_NULL_OUT",
        Wrote(set_error(err_buf, msg_out_buf_is_null), msg_out_buf_is_null))

\* front_compile.cpp: a token that is neither a literal nor an operator
OldUnknownToken(token) ==
  /\ pc = "run" /\ ntok = 0
  /\ ReturnWith("-1", "OLD_UNKNOWN",
        Wrote(set_error_with_token(err_buf, msg_unknown_token, token),
              msg_unknown_token \o token))

MaxErrCap == 18
MaxMsgLen == 6

\* the messages of the error codes, of every length up to MaxMsgLen
Letters == << "a","b","c","d","e","f","g","h","i","j","k","l" >>
Messages == { SubSeq(Letters, 1, k) : k \in 0..MaxMsgLen }

ErrBufs ==
  { ErrBuf(TRUE, 0), ErrBuf(TRUE, 8) } \cup
  { ErrBuf(FALSE, cap) : cap \in 0..MaxErrCap }

InitErr == \E eb \in ErrBufs : InitCall(64, <<>>, FALSE, 1, eb)

NextErr ==
  \/ \E token \in { tk_A, tk_HELLO } : TokUnknown(token)
  \/ NullOutBuf
  \/ \E msg \in Messages : WriteError(msg)
  \/ OldNullOutBuf
  \/ \E token \in { <<>>, tk_A, tk_HELLO } : OldUnknownToken(token)

SpecErr == InitErr /\ [][NextErr]_vars

(***************************************************************************)
(* Compilation of a source text that is followed byte by byte: the texts   *)
(* are NULL and the concatenations of a few pieces, so that tokens, runs   *)
(* of whitespace, tokens glued together and texts that end without a       *)
(* whitespace all occur.                                                   *)
(***************************************************************************)
MaxPieces == 4

Pieces ==
  { << " " >>, << "\n" >>, tk_A, tk_A \o << " " >>, kw_COLON \o << " " >>,
    kw_SEMI \o << " " >>, kw_WHILE \o << " " >>, kw_REPEAT \o << " " >> }

RECURSIVE Flat(_)
Flat(ps) == IF ps = <<>> THEN <<>> ELSE Head(ps) \o Flat(Tail(ps))

Texts ==
  { NullSource } \cup
  UNION { { Flat(ps) : ps \in [1..n -> Pieces] } : n \in 0..MaxPieces }

InitScan == \E text \in Texts : InitState(64, text, TRUE, 0)

\* the token the loop cuts out next
CurToken == ExtractToken(source, cursor).text

NextScan ==
  \/ TokColon(CurToken, NameAfterColon.text)
  \/ \E fail_at \in Fail : TokSemi(CurToken, fail_at)
  \/ TokWhile(CurToken, 0)
  \/ TokRepeat(CurToken, 0, FALSE)
  \/ TokWord(CurToken, 0)
  \/ TokUnknown(CurToken)
  \/ \E fail_at \in Fail : EmptyInput(fail_at)
  \/ EndOfInput

SpecScan == InitScan /\ [][NextScan]_vars

(***************************************************************************)
(* The same compilation as a running program: compile_internal is          *)
(* sequential code, so as long as a step of it is possible one is taken.   *)
(* The texts are one or two phrases behind a run of blanks.                *)
(***************************************************************************)
MaxBlanks == 1

Phrases ==
  { tk_A, kw_COLON, kw_COLON \o << " " >> \o tk_A \o << " " >>,
    kw_SEMI \o << " " >> \o tk_A \o << "\n" >>, kw_WHILE \o << " " >>,
    kw_REPEAT \o << " " >> }

Blanks(k) == [i \in 1..k |-> " "]

PhraseTexts ==
  { NullSource } \cup
  { Blanks(k) \o Flat(ps) :
      k \in 0..MaxBlanks,
      ps \in { <<>> } \cup { << p >> : p \in Phrases } \cup (Phrases \X Phrases) }

InitRun == \E text \in PhraseTexts : InitState(64, text, TRUE, 0)

SpecRun == InitRun /\ [][NextScan]_vars /\ WF_vars(NextScan)

(***************************************************************************)
(* The two entry points.  The caller holds a source text and calls         *)
(* v4front_compile, or v4front_compile_word with some name; what the       *)
(* entry point hands on decides the state compile_internal starts in.      *)
(***************************************************************************)
\* what reaches compile_internal: the text, and the definition it starts in
v4front_compile(text) ==
  [source |-> text, in_definition |-> FALSE, current_word_name |-> <<>>]

\* a wrapper that compiles the text as the body of the word name
v4front_compile_word_as_body(name, text) ==
  [source |-> text, in_definition |-> name # NullSource,
   current_word_name |-> IF name = NullSource THEN <<>> ELSE name]

\* (void)name; return v4front_compile(source, out_buf, err, err_cap)
v4front_compile_word(name, text) == v4front_compile(text)

\* the caller before the call
InitCaller ==
  /\ pc = "call"
  /\ call = [fn |-> "none"]
  /\ data_space = DATA_SPACE_BASE
  /\ err_buf = ErrBuf(TRUE, 0)
  /\ source = <<>>
  /\ cursor = 0
  /\ by_char = TRUE
  /\ src_tokens = 0
  /\ vm = NoVM
  /\ ret = "OK"
  /\ long_bits = 64
  /\ bc = NullStream
  /\ word_bc = NullStream
  /\ current_bc = "bc"
  /\ heap = <<>>
  /\ control_stack = <<>>
  /\ word_dict = <<>>
  /\ in_definition = FALSE
  /\ current_word_name = <<>>
  /\ out_buf = ZeroBuf
  /\ ntok = 0
  /\ last_token = <<>>
  /\ last_op = "none"
  /\ main_last = "none"
  /\ patch_out = FALSE
  /\ free_calls = 0

\* compile_internal is entered with what the entry point hands on
Enter(c, handed) ==
  /\ pc = "call"
  /\ pc' = "run"
  /\ call' = c
  /\ source' = handed.source
  /\ in_definition' = handed.in_definition
  /\ current_word_name' = handed.current_word_name
  /\ UNCHANGED << ret, long_bits, bc, word_bc, current_bc, heap,
                  control_stack, word_dict, out_buf, ntok, last_token,
                  last_op, main_last, patch_out, free_calls, cursor, by_char,
                  src_tokens, vm, err_buf, data_space >>

CallCompile(text) == Enter(DirectCall, v4front_compile(text))

CallCompileWord(name, text) ==
  Enter([fn |-> "v4front_compile_word", name |-> name],
        v4front_compile_word(name, text))

WordNames == { NullSource, <<>>, tk_A, tk_HELLO }

NextWord ==
  \/ \E text \in PhraseTexts : CallCompile(text)
  \/ \E name \in WordNames, text \in PhraseTexts : CallCompileWord(name, text)
  \/ TokColon(CurToken, NameAfterColon.text)
  \/ \E fail_at \in Fail : TokSemi(CurToken, fail_at)
  \/ TokWord(CurToken, 0)
  \/ TokUnknown(CurToken)
  \/ \E fail_at \in Fail : EmptyInput(fail_at)
  \/ EndOfInput

SpecWord == InitCaller /\ [][NextWord]_vars

(***************************************************************************)
(* Source texts that declare variables and constants between literals,     *)
(* colon definitions and calls.                                            *)
(***************************************************************************)
MaxDataTokens == 5

tk_X == <<"X">>
DataNames == { tk_A, tk_a, tk_X, tk_HELLO }

InitData == InitState(64, <<>>, FALSE, MaxDataTokens)

NextData ==
  \/ ~in_definition /\ \E name \in DataNames \cup { <<>> } :
        TokVariable(kw_VARIABLE, name)
  \/ ~in_definition /\ \E name \in DataNames \cup { <<>> } :
        TokConst(kw_CONST, name)
  \/ \E name \in DataNames : TokColon(kw_COLON, name)
  \/ TokSemi(kw_SEMI, 0)
  \/ TokInt(tk_42, 0)
  \/ \E token \in DataNames : TokWord(token, 0)
  \/ EndOfInput

SpecData == InitData /\ [][NextData]_vars

(***************************************************************************)
(* The same declarations followed byte by byte, so that the name behind    *)
(* CONSTANT or VARIABLE is what the text holds there.  CONSTANT and        *)
(* VARIABLE are tried before literals, dictionary and primitives.          *)
(***************************************************************************)
MaxDataPieces == 5

DataPieces ==
  { tk_42 \o << " " >>, kw_CONST \o << " " >>, kw_VARIABLE \o << " " >>,
    tk_X \o << " " >>, tk_DUP \o << " " >>,
    kw_COLON \o << " " >> \o tk_X \o << " " >> \o kw_SEMI \o << " " >> }

DataTexts ==
  UNION { { Flat(ps) : ps \in [1..n -> DataPieces] } : n \in 1..MaxDataPieces }

InitDataScan == \E text \in DataTexts : InitState(64, text, TRUE, 0)

DataKeyword(token) ==
  str_eq_ci(token, kw_CONST) \/ str_eq_ci(token, kw_VARIABLE)

NextDataScan ==
  \/ ~in_definition /\ TokVariable(CurToken, NameAfterColon.text)
  \/ ~in_definition /\ TokConst(CurToken, NameAfterColon.text)
  \/ TokColon(CurToken, NameAfterColon.text)
  \/ TokSemi(CurToken, 0)
  \/ ~DataKeyword(CurToken) /\ TokInt(CurToken, 0)
  \/ ~DataKeyword(CurToken) /\ TokWord(CurToken, 0)
  \/ ~DataKeyword(CurToken) /\ TokPrim(CurToken, 0)
  \/ ~DataKeyword(CurToken) /\ TokUnknown(CurToken)
  \/ EndOfInput

SpecDataScan == InitDataScan /\ [][NextDataScan]_vars

(***************************************************************************)
(* Parenthesis comments.  The token loop of the revision under src/ has no *)
(* comment handling; the handler follows the specification of the          *)
(* tokenizer: the token '(' on its own, that is '(' followed by whitespace *)
(* or the end of the input, opens a comment that is discarded through the  *)
(* next ')'; without a ')' the compilation fails with UnterminatedComment. *)
(***************************************************************************)
kw_PAREN == << "(" >>

\* the offset of the ')' that matches the opener, counting nested '(' ;
\* -1 when the text ends first
RECURSIVE CommentEnd_nested(_, _, _)
CommentEnd_nested(text, q, depth) ==
  IF CharAt(text, q) = NUL THEN -1
  ELSE IF CharAt(text, q) = ")"
  THEN IF depth = 0 THEN q ELSE CommentEnd_nested(text, q + 1, depth - 1)
  ELSE IF CharAt(text, q) = "("
  THEN CommentEnd_nested(text, q + 1, depth + 1)
  ELSE CommentEnd_nested(text, q + 1, depth)

\* the offset of the first ')' at or behind q, -1 when the text ends first;
\* depth is not used
RECURSIVE CommentEnd(_, _, _)
CommentEnd(text, q, depth) ==
  IF CharAt(text, q) = NUL THEN -1
  ELSE IF CharAt(text, q) = ")" THEN q
  ELSE CommentEnd(text, q + 1, depth)

TokComment(token) ==
  /\ pc = "run"
  /\ by_char
  /\ ~ExtractToken(source, cursor).none
  /\ token = ExtractToken(source, cursor).text
  /\ token = kw_PAREN
  /\ DefUnchanged
  /\ UNCHANGED << env, out_buf, free_calls, ntok, last_token, last_op >>
  /\ IF CommentEnd(source, AfterToken, 0) < 0
     THEN /\ cursor' = cursor
          /\ CLEANUP_AND_RETURN(Em(0), "UnterminatedComment")
     ELSE /\ cursor' = CommentEnd(source, AfterToken, 0) + 1
          /\ UNCHANGED << pc, ret, bc, word_bc, heap, control_stack,
                          patch_out, main_last >>

MaxCommentPieces == 4

CommentPieces ==
  { << "(", " " >>, << "(" >>, << ")" >>, << " ", ")", " " >>, tk_A,
    << " " >>, << "\n" >> \o tk_A, tk_42 \o << " " >> }

CommentTexts ==
  UNION { { Flat(ps) : ps \in [1..n -> CommentPieces] } :
          n \in 1..MaxCommentPieces }

InitComment == \E text \in CommentTexts : InitState(64, text, TRUE, 0)

NextComment ==
  \/ TokComment(CurToken)
  \/ CurToken # kw_PAREN /\ TokInt(CurToken, 0)
  \/ CurToken # kw_PAREN /\ TokUnknown(CurToken)
  \/ EndOfInput

SpecComment == InitComment /\ [][NextComment]_vars

(***************************************************************************)
(* A source text of definitions ': W000 ;  : W001 ; ...' long enough to    *)
(* fill the dictionary and to start one definition more.  A definition may *)
(* also reuse the first name.                                              *)
(***************************************************************************)
MaxDictTokens == 514

\* the name of the definition number i (from 0)
WordName(i) ==
  << "W", DigitChars[((i \div 100) % 10) + 1],
     DigitChars[((i \div 10) % 10) + 1], DigitChars[(i % 10) + 1] >>

InitDict == InitState(64, <<>>, FALSE, MaxDictTokens)

NextDict ==
  \/ TokColon(kw_COLON, WordName(word_count))
  \/ word_count % 64 = 1 /\ TokColon(kw_COLON, WordName(0))
  \/ TokSemi(kw_SEMI, 0)
  \/ word_count % 64 = 0 /\ EndOfInputAt(0)

SpecDict == InitDict /\ [][NextDict]_vars

(***************************************************************************)
(* Source texts that nest control structures up to the capacity of the     *)
(* control stack: a run of IFs, with every opener and closer tried in the  *)
(* first two tokens and near the full stack.                               *)
(***************************************************************************)
MaxDeepTokens == 34

InitDeep == InitState(64, <<>>, FALSE, MaxDeepTokens)

NearEmpty == ntok <= 1
NearFull == control_depth >= MAX_CONTROL_DEPTH - 2

NextDeep ==
  \/ \E fail_at \in Fail : TokIf(kw_IF, fail_at)
  \/ (NearEmpty \/ NearFull) /\ TokBegin(kw_BEGIN)
  \/ (NearEmpty \/ NearFull) /\ TokDo(kw_DO, 0)
  \/ (NearEmpty \/ NearFull) /\ TokThen(kw_THEN, FALSE)
  \/ (NearEmpty \/ NearFull) /\ TokElse(kw_ELSE, 0, FALSE)
  \/ (NearEmpty \/ NearFull) /\ TokUntil(kw_UNTIL, 0)
  \/ (NearEmpty \/ NearFull) /\ TokWhile(kw_WHILE, 0)
  \/ (NearEmpty \/ NearFull) /\ TokRepeat(kw_REPEAT, 0, FALSE)
  \/ (NearEmpty \/ NearFull) /\ TokAgain(kw_AGAIN, 0)
  \/ (NearEmpty \/ NearFull) /\ \E crash \in BOOLEAN : TokLoop(kw_LOOP, 0, crash)
  \/ (NearEmpty \/ NearFull) /\ \E crash \in BOOLEAN : TokPLoop(kw_PLOOP, 0, crash)
  \/ EndOfInput

SpecDeep == InitDeep /\ [][NextDeep]_vars

(***************************************************************************)
(* The main code of a one-token program of I, J or K, run on a stack       *)
(* machine.  The machine is not part of this repository: FROMR moves the   *)
(* return-stack top to the data stack, TOR moves the data-stack top to the *)
(* return stack, RFETCH copies the return-stack top to the data stack, DUP *)
(* duplicates the data-stack top, RET halts.  A stack is a sequence with   *)
(* its top at the end.  An instruction that needs an entry a stack does    *)
(* not have faults the machine.                                            *)
(***************************************************************************)
MaxRS == 6
StackValues == 0..2

Stacks(n) == UNION { [1..k -> StackValues] : k \in 0..n }

Push(st, v) == Append(st, v)
Pop(st) == SubSeq(st, 1, Len(st) - 1)
Top(st) == st[Len(st)]

\* the machine after the instruction op
VMStep(m, op) ==
  IF op = OP_RET THEN [m EXCEPT !.halted = TRUE]
  ELSE IF op = OP_FROMR
  THEN IF m.rs = <<>> THEN [m EXCEPT !.fault = TRUE]
       ELSE [m EXCEPT !.ds = Push(m.ds, Top(m.rs)), !.rs = Pop(m.rs),
                      !.ip = m.ip + 1]
  ELSE IF op = OP_TOR
  THEN IF m.ds = <<>> THEN [m EXCEPT !.fault = TRUE]
       ELSE [m EXCEPT !.rs = Push(m.rs, Top(m.ds)), !.ds = Pop(m.ds),
                      !.ip = m.ip + 1]
  ELSE IF op = OP_RFETCH
  THEN IF m.rs = <<>> THEN [m EXCEPT !.fault = TRUE]
       ELSE [m EXCEPT !.ds = Push(m.ds, Top(m.rs)), !.ip = m.ip + 1]
  ELSE IF op = OP_DUP
  THEN IF m.ds = <<>> THEN [m EXCEPT !.fault = TRUE]
       ELSE [m EXCEPT !.ds = Push(m.ds, Top(m.ds)), !.ip = m.ip + 1]
  ELSE [m EXCEPT !.fault = TRUE]

compiled == << pc, ret, long_bits, bc, word_bc, current_bc, heap,
               control_stack, word_dict, in_definition, current_word_name,
               out_buf, ntok, last_token, last_op, main_last, patch_out,
               free_calls, source, cursor, by_char, src_tokens, err_buf,
               call, data_space >>

\* the machine is started on the main code with some stacks; ds0 and rs0
\* keep the stacks it was started with
Boot(ds, rs) ==
  /\ pc = "ok"
  /\ vm = NoVM
  /\ vm' = [on |-> TRUE, ip |-> 0, ds |-> ds, rs |-> rs, ds0 |-> ds,
            rs0 |-> rs, halted |-> FALSE, fault |-> FALSE]
  /\ UNCHANGED compiled

\* the machine executes the instruction at ip
Exec ==
  /\ vm.on
  /\ ~vm.halted /\ ~vm.fault
  /\ vm.ip < out_buf.size
  /\ vm' = VMStep(vm, out_buf.bytes[vm.ip + 1])
  /\ UNCHANGED compiled

tk_I == <<"I">>
tk_J == <<"J">>
tk_K == <<"K">>
tk_j == <<"j">>
IndexWords == { tk_I, tk_J, tk_K, tk_j }

InitVM == InitState(64, <<>>, FALSE, 1)

NextVM ==
  \/ \E token \in IndexWords : TokPrim(token, 0)
  \/ EndOfInput
  \/ pc = "ok" /\ vm = NoVM /\ \E ds \in Stacks(1), rs \in Stacks(MaxRS) : Boot(ds, rs)
  \/ Exec

SpecVM == InitVM /\ [][NextVM]_vars

(***************************************************************************)
(* The main code of a DO loop run on the stack machine.  Beyond the        *)
(* instructions above: LIT pushes its imm32, ADD and LT replace the two    *)
(* top entries (a below b) by a + b and by the flag a < b, SWAP exchanges  *)
(* them, OVER copies the second entry to the top, DROP removes the top, JZ *)
(* pops a flag and branches when it is 0, JMP branches; a branch at        *)
(* position P of its offset goes to P + 2 + offset.                        *)
(***************************************************************************)
\* the machine after the instruction at m.ip of code
VMExec(m, code) ==
  LET op == code[m.ip + 1]
      n == Len(m.ds)
  IN
  IF op = OP_LIT
  THEN [m EXCEPT !.ds = Push(m.ds, RdI32(code, m.ip + 2)), !.ip = m.ip + 5]
  ELSE IF op = OP_JMP
  THEN [m EXCEPT !.ip = m.ip + 3 + RdI16(code, m.ip + 2)]
  ELSE IF op = OP_JZ
  THEN IF n < 1 THEN [m EXCEPT !.fault = TRUE]
       ELSE [m EXCEPT !.ds = Pop(m.ds),
                      !.ip = IF Top(m.ds) = 0
                             THEN m.ip + 3 + RdI16(code, m.ip + 2)
                             ELSE m.ip + 3]
  ELSE IF op = OP_DROP
  THEN IF n < 1 THEN [m EXCEPT !.fault = TRUE]
       ELSE [m EXCEPT !.ds = Pop(m.ds), !.ip = m.ip + 1]
  ELSE IF op \in { OP_ADD, OP_LT, OP_SWAP, OP_OVER }
  THEN IF n < 2 THEN [m EXCEPT !.fault = TRUE]
       ELSE LET a == m.ds[n - 1]
                b == m.ds[n]
                below == SubSeq(m.ds, 1, n - 2)
            IN [m EXCEPT !.ip = m.ip + 1,
                         !.ds = IF op = OP_ADD THEN Append(below, a + b)
                                ELSE IF op = OP_LT
                                THEN Append(below, IF a < b THEN 1 ELSE 0)
                                ELSE IF op = OP_SWAP THEN below \o << b, a >>
                                ELSE m.ds \o << a >>]
  ELSE VMStep(m, op)

tk_1 == << "1" >>
tk_DROP == << "D", "R", "O", "P" >>

\* DO <body> LOOP and DO <body> 1 +LOOP, the body leaving the data stack
\* as it finds it
LoopBodies ==
  { <<>>,
    tk_I \o << " " >> \o tk_DROP \o << " " >>,
    kw_LEAVE \o << " " >>,
    tk_I \o << " " >> \o kw_IF \o << " " >> \o kw_LEAVE \o << " " >>
      \o kw_THEN \o << " " >> }

LoopEnds == { kw_LOOP, tk_1 \o << " " >> \o kw_PLOOP }

LoopTexts ==
  { kw_DO \o << " " >> \o body \o end : body \in LoopBodies, end \in LoopEnds }

\* do_addr of a DO that is the first token of the main code
DoAddr == 3

MaxLimit == 3

InitLoopVM == \E text \in LoopTexts : InitState(64, text, TRUE, 0)

\* the machine is started with limit and start on top of the data stack;
\* visits counts the arrivals at do_addr
BootLoop(below, limit, start, rs) ==
  /\ pc = "ok"
  /\ vm = NoVM
  /\ vm' = [on |-> TRUE, ip |-> 0, ds |-> below \o << limit, start >>,
            rs |-> rs, ds0 |-> below \o << limit, start >>, rs0 |-> rs,
            halted |-> FALSE, fault |-> FALSE, visits |-> 0]
  /\ UNCHANGED compiled

ExecLoop ==
  /\ vm.on
  /\ ~vm.halted /\ ~vm.fault
  /\ vm.ip < out_buf.size
  /\ LET m == VMExec(vm, out_buf.bytes)
     IN vm' = [m EXCEPT !.visits = IF m.ip = DoAddr /\ ~m.fault /\ ~m.halted
                                   THEN @ + 1 ELSE @]
  /\ UNCHANGED compiled

NextLoopVM ==
  \/ TokDo(CurToken, 0)
  \/ TokPrim(CurToken, 0)
  \/ TokInt(CurToken, 0)
  \/ TokIf(CurToken, 0)
  \/ TokThen(CurToken, FALSE)
  \/ TokLeave(CurToken, 0)
  \/ TokLoop(CurToken, 0, FALSE)
  \/ TokPLoop(CurToken, 0, FALSE)
  \/ EndOfInput
  \/ pc = "ok" /\ vm = NoVM /\
       \E below \in Stacks(1), limit \in 0..MaxLimit, start \in 0..MaxLimit,
          rs \in Stacks(1) : BootLoop(below, limit, start, rs)
  \/ ExecLoop

SpecLoopVM == InitLoopVM /\ [][NextLoopVM]_vars

(***************************************************************************)
(* Source texts with a long body between a branch and its target: IF or    *)
(* BEGIN, then K over and over (eleven bytes each), then THEN or UNTIL.    *)
(* The token loop is taken up behind the body, in the state the handlers   *)
(* of IF or BEGIN and of K have left after the opener and n times K: the   *)
(* main stream holds the opener's bytes and n expansions of K in an        *)
(* allocation that has been doubled from 64 up to the first capacity that  *)
(* holds them, and the control stack holds the frame of the opener.        *)
(***************************************************************************)
MaxFarBody == 2979

\* short bodies and the longest ones
FarBodies == 1..20 \cup (MaxFarBody - 20)..MaxFarBody

\* n expansions of K
FarBody(n) == [i \in 1..(11 * n) |-> K_ops[((i - 1) % 11) + 1]]

\* the capacity the doubling of append_byte has reached for len bytes
RECURSIVE Grown(_, _)
Grown(cap, len) == IF cap >= len THEN cap ELSE Grown(cap * 2, len)

FarStream(opener, n) ==
  LET buf == (IF opener = IF_CONTROL THEN << OP_JZ, 0, 0 >> ELSE <<>>)
               \o FarBody(n)
  IN [buf |-> buf, cap |-> Grown(INITIAL_CAP, Len(buf)), ptr |-> 1]

FarFrame(opener) ==
  IF opener = IF_CONTROL
  THEN [ControlFrame(IF_CONTROL) EXCEPT !.jz_patch_addr = 1]
  ELSE [ControlFrame(BEGIN_CONTROL) EXCEPT !.begin_addr = 0]

InitFar ==
  \E opener \in { IF_CONTROL, BEGIN_CONTROL }, n \in FarBodies :
    /\ call = DirectCall
    /\ data_space = DATA_SPACE_BASE
    /\ err_buf = ErrBuf(TRUE, 0)
    /\ source = <<>>
    /\ cursor = 0
    /\ by_char = FALSE
    /\ src_tokens = n + 4
    /\ vm = NoVM
    /\ pc = "run"
    /\ ret = "OK"
    /\ long_bits = 64
    /\ bc = FarStream(opener, n)
    /\ word_bc = NullStream
    /\ current_bc = "bc"
    /\ heap = << 0 >>
    /\ control_stack = << FarFrame(opener) >>
    /\ word_dict = <<>>
    /\ in_definition = FALSE
    /\ current_word_name = <<>>
    /\ out_buf = ZeroBuf
    /\ ntok = n + 1
    /\ last_token = tk_K
    /\ last_op = "PRIM"
    /\ main_last = "PRIM"
    /\ patch_out = FALSE
    /\ free_calls = 0

NextFar ==
  \/ control_depth = 1 /\ ntok < src_tokens - 2 /\ TokPrim(tk_K, 0)
  \/ control_depth = 1 /\ TokThen(kw_THEN, FALSE)
  \/ control_depth = 1 /\ TokUntil(kw_UNTIL, 0)
  \/ TokInt(tk_42, 0)
  \/ EndOfInputAt(0)

SpecFar == InitFar /\ [][NextFar]_vars

(***************************************************************************)
(* The three append functions applied to a stream.  The stream they are    *)
(* applied to is one that appends have built: size bytes in an allocation  *)
(* doubled from 64 up to the first capacity that holds them, or no         *)
(* allocation at all while nothing has been appended.  fail_at tells which *)
(* realloc of the call fails, if any.                                      *)
(***************************************************************************)
MaxFill == 130
MaxAppends == 2

\* a stream of n bytes, no two neighbours alike
FilledStream(n) ==
  IF n = 0 THEN NullStream
  ELSE [buf |-> [i \in 1..n |-> (i * 37) % 256],
        cap |-> Grown(INITIAL_CAP, n), ptr |-> 1]

InitEmit ==
  \E n \in 0..MaxFill :
    /\ call = DirectCall
    /\ data_space = DATA_SPACE_BASE
    /\ err_buf = ErrBuf(TRUE, 0)
    /\ source = <<>>
    /\ cursor = 0
    /\ by_char = FALSE
    /\ src_tokens = MaxAppends
    /\ vm = NoVM
    /\ pc = "run"
    /\ ret = "OK"
    /\ long_bits = 64
    /\ bc = FilledStream(n)
    /\ word_bc = NullStream
    /\ current_bc = "bc"
    /\ heap = IF n = 0 THEN <<>> ELSE << 0 >>
    /\ control_stack = <<>>
    /\ word_dict = <<>>
    /\ in_definition = FALSE
    /\ current_word_name = <<>>
    /\ out_buf = ZeroBuf
    /\ ntok = 0
    /\ last_token = <<>>
    /\ last_op = "none"
    /\ main_last = "none"
    /\ patch_out = FALSE
    /\ free_calls = 0

\* one call of an append function on the main stream; e is its outcome
AppendCall(fn, e) ==
  /\ pc = "run"
  /\ ntok < src_tokens
  /\ ntok' = ntok + 1
  /\ last_op' = fn
  /\ pc' = IF e.err = "OK" THEN "run" ELSE "err"
  /\ ret' = e.err
  /\ bc' = StreamOf(e)
  /\ heap' = e.heap
  /\ UNCHANGED << env, out_buf, free_calls, cursor, last_token, word_bc,
                  control_stack, patch_out, main_last >>
  /\ DefUnchanged

AppendByte(fail_at) ==
  AppendCall("append_byte", append_byte(EmitCtx(bc, heap, fail_at), 255))

AppendI16(fail_at) ==
  AppendCall("append_i16_le", append_i16_le(EmitCtx(bc, heap, fail_at), 513))

AppendI32(fail_at) ==
  AppendCall("append_i32_le", append_i32_le(EmitCtx(bc, heap, fail_at), 67305985))

NextEmit ==
  \/ \E fail_at \in Fail : AppendByte(fail_at)
  \/ \E fail_at \in Fail : AppendI16(fail_at)
  \/ \E fail_at \in Fail : AppendI32(fail_at)

SpecEmit == InitEmit /\ [][NextEmit]_vars

(***************************************************************************)
(* Source texts that define words named like a primitive (DUP) or like a   *)
(* keyword (IF, EXIT) and use these names afterwards.                      *)
(***************************************************************************)
MaxShadowTokens == 5

tk_dup == << "d", "u", "p" >>
ShadowNames == { tk_DUP, kw_IF, kw_EXIT }
ShadowTokens == { tk_DUP, tk_dup, tk_DROP, kw_IF, kw_EXIT }

InitShadow == InitState(64, <<>>, FALSE, MaxShadowTokens)

NextShadow ==
  \/ \E name \in ShadowNames : TokColon(kw_COLON, name)
  \/ TokSemi(kw_SEMI, 0)
  \/ TokIf(kw_IF, 0)
  \/ TokThen(kw_THEN, FALSE)
  \/ TokExit(kw_EXIT, 0)
  \/ \E token \in ShadowTokens : TokWord(token, 0)
  \/ \E token \in ShadowTokens : TokPrim(token, 0)
  \/ EndOfInput

SpecShadow == InitShadow /\ [][NextShadow]_vars

(***************************************************************************)
(* Linear decode of a stream with the opcode-immediate table.              *)
(***************************************************************************)
\* length of the instruction with this opcode: LIT has an imm32, JMP, JZ
\* and CALL have a 16-bit operand, the others none
InstrLen(op) ==
  IF op = OP_LIT THEN 5
  ELSE IF op \in {OP_JMP, OP_JZ, OP_CALL} THEN 3
  ELSE 1

\* the 0-based offsets at which a linear decode from p finds an opcode
RECURSIVE InstrStartsFrom(_, _)
InstrStartsFrom(buf, p) ==
  IF p >= Len(buf) THEN {}
  ELSE {p} \cup InstrStartsFrom(buf, p + InstrLen(buf[p + 1]))

InstrStarts(buf) == InstrStartsFrom(buf, 0)

\* the target P + 2 + O of the branch whose opcode is at offset p
BranchTarget(buf, p) == (p + 1) + 2 + RdI16(buf, p + 2)

\* every JMP and JZ of the stream is complete and targets an instruction
\* start of the stream, or its end
BranchesOK(buf) ==
  \A p \in InstrStarts(buf) :
    buf[p + 1] \in {OP_JMP, OP_JZ} =>
      /\ p + 3 <= Len(buf)
      /\ BranchTarget(buf, p) \in InstrStarts(buf) \cup {Len(buf)}

\* opcode of the last instruction of a non-empty stream
LastInstrOp(buf) ==
  buf[(CHOOSE p \in InstrStarts(buf) : \A q \in InstrStarts(buf) : q <= p) + 1]

(***************************************************************************)
(* C1 (as claimed): after a successful compilation every JMP and JZ of     *)
(* the main stream and of every word stream targets P + 2 + O inside       *)
(* [0, stream length], at an instruction start of the linear decode.       *)
(***************************************************************************)
C1_BranchTargetsValid ==
  pc = "ok" =>
    /\ BranchesOK(out_buf.bytes)
    /\ \A i \in 1..out_buf.word_count : BranchesOK(out_buf.entries[i].bytes)

(***************************************************************************)
(* C2 (as claimed): at every token boundary every pending patch site of    *)
(* every open control frame is a 2-byte field inside the current stream,   *)
(* and no backpatch ever writes outside the stream it is applied to.       *)
(***************************************************************************)
\* the patch sites of a frame that still await their final offset
PendingSites(frame) ==
  IF frame.type = IF_CONTROL
  THEN {IF frame.has_else THEN frame.jmp_patch_addr ELSE frame.jz_patch_addr}
  ELSE IF frame.type = BEGIN_CONTROL
  THEN (IF frame.has_while THEN {frame.while_patch_addr} ELSE {})
  ELSE {frame.leave_patch_addrs[i] : i \in 1..frame.leave_count}

C2_PatchSitesInCurrentStream ==
  /\ pc = "run" =>
       \A i \in 1..control_depth :
         \A site \in PendingSites(control_stack[i]) : site + 2 <= Len(Cur.buf)
  /\ ~patch_out

(***************************************************************************)
(* C3 (as claimed): after a successful compilation the main stream ends    *)
(* with RET, except that it ends with an unconditional JMP exactly when    *)
(* the last construct emitted into the main stream is AGAIN or REPEAT.     *)
(***************************************************************************)
C3_TrailingRet ==
  pc = "ok" =>
    /\ out_buf.bytes # <<>>
    /\ IF main_last \in {"AGAIN", "REPEAT"}
       THEN LastInstrOp(out_buf.bytes) = OP_JMP
       ELSE /\ LastInstrOp(out_buf.bytes) = OP_RET
            /\ out_buf.bytes[Len(out_buf.bytes)] = OP_RET

(***************************************************************************)
(* C4 (as claimed): when the compilation returns an error, every buffer    *)
(* the invocation allocated has been released exactly once.                *)
(***************************************************************************)
C4_ErrorReleasesAll ==
  pc = "err" => \A p \in 1..Len(heap) : heap[p] = 1

(***************************************************************************)
(* C5 (as claimed): when v4front_compile returns an error, the handle is   *)
(* in the zero state: data = NULL, size = 0, words = NULL, word_count = 0. *)
(***************************************************************************)
IsZeroBuf(ob) ==
  ob.data = 0 /\ ob.size = 0 /\ ob.words = 0 /\ ob.word_count = 0

C5_ErrorLeavesZeroHandle ==
  (pc = "err" /\ free_calls = 0) => IsZeroBuf(out_buf)

(***************************************************************************)
(* C6: v4front_free on the handle of a successful compilation leaves every *)
(* owning field NULL and every count 0, with every allocation released     *)
(* exactly once; a call on a handle in the zero state (so also a second    *)
(* call) or on NULL releases nothing and changes nothing.                  *)
(***************************************************************************)
C6_FreeStep ==
  free_calls' = free_calls + 1 =>
    /\ (last_op' = "FREE_NULL" \/ IsZeroBuf(out_buf)) =>
         (out_buf' = out_buf /\ heap' = heap)
    /\ (last_op' = "FREE" /\ pc = "ok" /\ ~IsZeroBuf(out_buf)) =>
         /\ IsZeroBuf(out_buf')
         /\ \A p \in 1..Len(heap') : heap'[p] = 1

C6_FreeIdempotent == [][C6_FreeStep]_vars

\* the handle of a compilation with a word was released and then given to
\* v4front_free again
C6_Witness ==
  /\ pc = "ok" /\ free_calls = 2 /\ last_op = "FREE"
  /\ Len(heap) >= 4 /\ IsZeroBuf(out_buf)
  /\ \A p \in 1..Len(heap) : heap[p] = 1

(***************************************************************************)
(* C7.  A step that reads a token which is no keyword and parses           *)
(* completely as an integer.                                               *)
(***************************************************************************)
IntTokenStep ==
  /\ ntok' = ntok + 1
  /\ ~IsKeyword(last_token')
  /\ try_parse_int(last_token', long_bits).ok
  /\ pc' = "run"

\* the bytes the step appended to the current stream
Appended(bytes) ==
  /\ current_bc' = current_bc
  /\ IF current_bc = "bc"
     THEN bc'.buf = bc.buf \o bytes /\ word_bc' = word_bc
     ELSE word_bc'.buf = word_bc.buf \o bytes /\ bc' = bc

LitOf(token) == <<OP_LIT>> \o LE32(try_parse_int(token, long_bits).val)
CallOf(token) == <<OP_CALL>> \o LE16(LookupWord(token))

IntForm(token) == strtol0(token, 64).end = Len(token) /\ token # <<>>

\* the value of a token of integer form is outside the range of int32_t
OutOfInt32(token) ==
  LET signed == Head(token) \in {"+", "-"}
      s1 == IF signed THEN Tail(token) ELSE token
      hex == Len(s1) >= 3 /\ s1[1] = "0" /\ tolower(s1[2]) = "x"
      base == IF hex THEN 16 ELSE IF s1[1] = "0" THEN 8 ELSE 10
      d == StrtolDigits(IF hex THEN Tail(Tail(s1)) ELSE s1, base, ZeroMag, 0)
  IN MagOutOfLong(d.mag, signed /\ Head(token) = "-", 32)

C8_OverflowRejected ==
  [][(/\ ntok' = ntok + 1
      /\ Dispatch(last_token') \notin {"KEYWORD", "WORD"}
      /\ IntForm(last_token')
      /\ OutOfInt32(last_token'))
     => (pc' = "err" /\ ret' = "InvalidInteger")]_vars

(***************************************************************************)
(* C9.  Definition mode.                                                   *)
(***************************************************************************)
ColonStep == ntok' = ntok + 1 /\ last_op' = "COLON"
SemiStep == ntok' = ntok + 1 /\ last_op' = "SEMI"
EndStep == last_op' = "EOI" /\ last_op # "EOI"

\* ':' inside a definition fails with NestedColon, ';' outside one with
\* SemicolonWithoutColon; an accepted ';' leaves definition mode and puts
\* the emitter back on the main stream
C9_ColonSemi ==
  /\ ColonStep => IF in_definition
                  THEN pc' = "err" /\ ret' = "NestedColon"
                  ELSE pc' = "run" => (in_definition' /\ current_bc' = "word_bc")
  /\ SemiStep => IF ~in_definition
                 THEN pc' = "err" /\ ret' = "SemicolonWithoutColon"
                 ELSE pc' = "run" => (~in_definition' /\ current_bc' = "bc"
                                      /\ word_count' = word_count + 1)

\* C9 (as claimed): ... and the end of input inside a definition fails with
\* UnclosedColon.
C9_DefinitionProtocol ==
  [][/\ C9_ColonSemi
     /\ (EndStep /\ in_definition) => (pc' = "err" /\ ret' = "UnclosedColon")]_vars

\* C9 (amended): ... and the end of input inside a definition fails: with
\* UnclosedColon when the control stack is empty, and with the error of the
\* unclosed frame on top of the control stack otherwise.
C9_DefinitionProtocolAmended ==
  [][/\ C9_ColonSemi
     /\ (EndStep /\ in_definition) =>
          /\ pc' = "err"
          /\ ret' = IF control_depth = 0 THEN "UnclosedColon"
                    ELSE UnclosedErr(TopFrame)]_vars

\* the source ended inside a definition with no open control frame
C9_Witness ==
  /\ pc = "err" /\ ret = "UnclosedColon" /\ last_op = "EOI"
  /\ in_definition /\ control_depth = 0 /\ current_bc = "word_bc"

(***************************************************************************)
(* C10: the names of the dictionary entries are pairwise distinct without  *)
(* regard to case; a ':' with the name of an entry, up to case, fails with *)
(* DuplicateWord and adds nothing.                                         *)
(***************************************************************************)
NamesDistinct(dict) ==
  \A i, j \in 1..Len(dict) : i # j => ~str_eq_ci(dict[i].name, dict[j].name)

\* the name read by the ':' of this step: the source text behind ':' is
\* not kept, the name is the one copied to current_word_name
C10_DuplicateStep ==
  (ColonStep /\ ~in_definition /\ current_word_name' # <<>>
     /\ \E i \in 1..word_count : str_eq_ci(word_dict[i].name, current_word_name'))
  => (pc' = "err" /\ ret' = "DuplicateWord" /\ word_dict' = word_dict)

C10_UniqueNames ==
  /\ []NamesDistinct(word_dict)
  /\ [][C10_DuplicateStep]_vars

\* ': A ; : a' was rejected
C10_Witness ==
  /\ pc = "err" /\ ret = "DuplicateWord" /\ word_count = 1
  /\ current_word_name # word_dict[1].name
  /\ str_eq_ci(current_word_name, word_dict[1].name)

(***************************************************************************)
(* C11: every dictionary entry, and after a successful compilation every   *)
(* word of the handle, has code_len >= 1 and RET as the last byte of its   *)
(* code, whatever the body of the definition was.                          *)
(***************************************************************************)
EndsWithRet(w) ==
  /\ w.code_len >= 1
  /\ w.code_len = Len(w.bytes)
  /\ w.bytes[w.code_len] = OP_RET

C11_WordEndsWithRet ==
  /\ \A i \in 1..word_count : EndsWithRet(word_dict[i])
  /\ pc = "ok" => \A i \in 1..out_buf.word_count : EndsWithRet(out_buf.entries[i])

\* ': A BEGIN AGAIN ;' compiled: the body ends with a JMP and RET follows
C11_Witness ==
  /\ pc = "ok" /\ out_buf.word_count = 1
  /\ out_buf.entries[1].bytes = <<OP_JMP>> \o LE16(-3) \o <<OP_RET>>

(***************************************************************************)
(* C12: a token with the name of a dictionary entry, without regard to     *)
(* case, appends CALL and the 16-bit little-endian 0-based index of the    *)
(* first such entry to the current stream; after a successful compilation  *)
(* the handle holds the entries in declaration order, as many as were      *)
(* sealed, so the index is below word_count and words[index] is the entry  *)
(* that was matched.                                                       *)
(***************************************************************************)
\* entry i (1-based) is the first one whose name equals the token
FirstMatch(token, i) ==
  /\ i \in 1..word_count
  /\ str_eq_ci(token, word_dict[i].name)
  /\ \A j \in 1..(i - 1) : ~str_eq_ci(token, word_dict[j].name)

C12_CallStep ==
  \A i \in 1..word_count :
    (ntok' = ntok + 1 /\ ~IsKeyword(last_token') /\ FirstMatch(last_token', i))
    => \/ /\ pc' = "run"
          /\ Appended(<<OP_CALL, (i - 1) % 256, (i - 1) \div 256>>)
          /\ word_dict' = word_dict
       \/ pc' = "err" /\ ret' = "OutOfMemory"

C12_Transfer ==
  (pc = "ok" /\ free_calls = 0) =>
    /\ out_buf.word_count = word_count
    /\ Len(out_buf.entries) = word_count
    /\ \A i \in 1..word_count :
         /\ out_buf.entries[i].name_str = word_dict[i].name
         /\ out_buf.entries[i].code = word_dict[i].code
         /\ out_buf.entries[i].code_len = word_dict[i].code_len
         /\ out_buf.entries[i].bytes = word_dict[i].bytes

C12_CallIndexesWord == []C12_Transfer /\ [][C12_CallStep]_vars

\* ': a ; A' compiled: the main code is CALL 0 and words[0] is a
C12_Witness ==
  /\ pc = "ok" /\ out_buf.word_count = 1
  /\ out_buf.entries[1].name_str = tk_a
  /\ last_token = tk_A
  /\ out_buf.bytes = <<OP_CALL, 0, 0, OP_RET>>

(***************************************************************************)
(* C13: a token that is no keyword, no integer literal and no operator and *)
(* that names no sealed dictionary entry fails with UnknownToken and       *)
(* appends nothing, also when it is the name of the definition that is     *)
(* still open.                                                             *)
(***************************************************************************)
\* the token is none of keyword, integer literal, operator
PlainName(token) ==
  /\ ~IsKeyword(token)
  /\ ~try_parse_int(token, long_bits).ok
  /\ PrimOps(token) = <<>>

Sealed(token) == \E i \in 1..word_count : str_eq_ci(token, word_dict[i].name)

BodyTokenStep == ntok' = ntok + 1 /\ in_definition /\ ~IsKeyword(last_token')

KeywordStep(kw) == ntok' = ntok + 1 /\ str_eq_ci(last_token', kw)

OnBegin == control_depth > 0 /\ TopFrame.type = BEGIN_CONTROL

Fails(code) == pc' = "err" /\ ret' = code

\* the keyword was accepted: the step ends in the loop, or on a failed
\* allocation, or on a write outside the buffer
Accepted == pc' \in {"run", "crash"} \/ Fails("OutOfMemory")

PopsOnce == pc' = "run" => control_stack' = Popped

C16_BeginStep ==
  OnBegin =>
    /\ KeywordStep(kw_WHILE) =>
         IF TopFrame.has_while THEN Fails("DuplicateWhile")
         ELSE /\ Accepted
              /\ pc' = "run" =>
                   /\ Len(control_stack') = control_depth
                   /\ control_stack'[control_depth].type = BEGIN_CONTROL
                   /\ control_stack'[control_depth].has_while
    /\ KeywordStep(kw_UNTIL) =>
         IF TopFrame.has_while THEN Fails("UntilAfterWhile")
         ELSE Accepted /\ PopsOnce
    /\ KeywordStep(kw_AGAIN) =>
         IF TopFrame.has_while THEN Fails("AgainAfterWhile")
         ELSE Accepted /\ PopsOnce
    /\ KeywordStep(kw_REPEAT) =>
         IF ~TopFrame.has_while THEN Fails("RepeatWithoutWhile")
         ELSE Accepted /\ PopsOnce

C16_BeginProtocol == [][C16_BeginStep]_vars

\* 'BEGIN WHILE REPEAT' was accepted and the frame is gone
C16_Witness ==
  /\ pc = "run" /\ ntok = 3 /\ last_op = "REPEAT" /\ control_depth = 0
  /\ Len(bc.buf) = 6 /\ bc.buf[1] = OP_JZ /\ bc.buf[4] = OP_JMP

(***************************************************************************)
(* C18: the closing keywords look at the top control frame only: ELSE and  *)
(* THEN need an IF frame there, UNTIL, WHILE, REPEAT and AGAIN a BEGIN     *)
(* frame, LOOP and +LOOP a DO frame; with an empty stack or a top frame of *)
(* another kind the keyword fails with its own error, whatever lies        *)
(* deeper in the stack.                                                    *)
(***************************************************************************)
\* keyword, kind of frame it needs on top, error when it is not there
Closers ==
  { <<kw_ELSE, IF_CONTROL, "ElseWithoutIf">>,
    <<kw_THEN, IF_CONTROL, "ThenWithoutIf">>,
    <<kw_UNTIL, BEGIN_CONTROL, "UntilWithoutBegin">>,
    <<kw_WHILE, BEGIN_CONTROL, "WhileWithoutBegin">>,
    <<kw_REPEAT, BEGIN_CONTROL, "RepeatWithoutBegin">>,
    <<kw_AGAIN, BEGIN_CONTROL, "AgainWithoutBegin">>,
    <<kw_LOOP, DO_CONTROL, "LoopWithoutDo">>,
    <<kw_PLOOP, DO_CONTROL, "PLoopWithoutDo">> }

C18_CloserStep ==
  \A c \in Closers :
    KeywordStep(c[1]) =>
      IF control_depth = 0 \/ control_stack[control_depth].type # c[2]
      THEN Fails(c[3])
      ELSE ~Fails(c[3])

C18_StrictLifo == [][C18_CloserStep]_vars

\* 'IF BEGIN THEN': THEN was refused although an IF frame lies below the
\* BEGIN frame
C18_Witness ==
  /\ pc = "err" /\ ret = "ThenWithoutIf"
  /\ control_depth = 2
  /\ control_stack[1].type = IF_CONTROL
  /\ control_stack[2].type = BEGIN_CONTROL

(***************************************************************************)
(* C15.  IF ... ELSE ... THEN within one stream.  Positions are 0-based    *)
(* offsets into the stream; the byte at offset p is buf[p + 1].            *)
(***************************************************************************)
\* the current stream after the step
CurNext == IF current_bc = "bc" THEN bc' ELSE word_bc'

\* the branch whose offset field is at position site of buf targets t
Targets(buf, site, t) == site + 2 + RdI16(buf, site + 1) = t

\* buf2 is buf with at most the bytes of the fields at sites rewritten
SameBut(buf, buf2, sites) ==
  \A k \in 1..Len(buf) :
    (\A site \in sites : k \notin {site + 1, site + 2}) => buf2[k] = buf[k]

\* an accepted ELSE appends JMP 0, records the field of the JMP and makes
\* the JZ of the IF target the byte behind the JMP
C15_ElseStep ==
  (KeywordStep(kw_ELSE) /\ pc' = "run") =>
    LET Z == TopFrame.jz_patch_addr
        L == Len(Cur.buf)
    IN /\ Cur.buf[Z] = OP_JZ
       /\ Len(CurNext.buf) = L + 3
       /\ SubSeq(CurNext.buf, L + 1, L + 3) = <<OP_JMP, 0, 0>>
       /\ SameBut(Cur.buf, CurNext.buf, {Z})
       /\ Targets(CurNext.buf, Z, L + 3)
       /\ control_stack' = [control_stack EXCEPT
                              ![control_depth].jmp_patch_addr = L + 1,
                              ![control_depth].has_else = TRUE]

\* an accepted THEN pops the frame and makes the open branch (the JMP of
\* ELSE, the JZ of IF without ELSE) target the cursor; with ELSE the JZ
\* still targets the byte behind the JMP of ELSE
C15_ThenStep ==
  (KeywordStep(kw_THEN) /\ pc' = "run") =>
    LET Z == TopFrame.jz_patch_addr
        J == TopFrame.jmp_patch_addr
        L == Len(Cur.buf)
    IN /\ Len(CurNext.buf) = L
       /\ control_stack' = Popped
       /\ Cur.buf[Z] = OP_JZ
       /\ IF TopFrame.has_else
          THEN /\ Cur.buf[J] = OP_JMP
               /\ Targets(CurNext.buf, J, L)
               /\ Targets(CurNext.buf, Z, J + 2)
               /\ SameBut(Cur.buf, CurNext.buf, {J})
          ELSE /\ Targets(CurNext.buf, Z, L)
               /\ SameBut(Cur.buf, CurNext.buf, {Z})

BackwardBranch(op) ==
  LET L == Len(Cur.buf)
      P == L + 1
      offset == RdI16(CurNext.buf, P + 1)
  IN /\ Len(CurNext.buf) = L + 3
     /\ CurNext.buf[L + 1] = op
     /\ offset = TopFrame.begin_addr - (P + 2)
     /\ offset <= -3
     /\ Targets(CurNext.buf, P, TopFrame.begin_addr)
     /\ control_stack' = Popped

C17_CloserStep ==
  /\ (KeywordStep(kw_UNTIL) /\ pc' = "run") =>
       BackwardBranch(OP_JZ) /\ SameBut(Cur.buf, CurNext.buf, {})
  /\ (KeywordStep(kw_AGAIN) /\ pc' = "run") =>
       BackwardBranch(OP_JMP) /\ SameBut(Cur.buf, CurNext.buf, {})
  /\ (KeywordStep(kw_REPEAT) /\ pc' = "run") =>
       LET W == TopFrame.while_patch_addr
       IN /\ BackwardBranch(OP_JMP)
          /\ Cur.buf[W] = OP_JZ
          /\ Targets(CurNext.buf, W, Len(CurNext.buf))
          /\ SameBut(Cur.buf, CurNext.buf, {W})

LoopCode(lit, L, do_addr) ==
  LET head == <<OP_FROMR>> \o lit \o <<OP_ADD, OP_FROMR, OP_OVER, OP_OVER, OP_LT, OP_JZ>>
      P == L + Len(head) + 2 + 3 + 1
  IN head \o <<6, 0>> \o <<OP_SWAP, OP_TOR, OP_TOR, OP_JMP>>
          \o LE16(do_addr - (P + 2)) \o <<OP_DROP, OP_DROP>>

\* the bytes the step appended to the current stream
AppendedTail == SubSeq(CurNext.buf, Len(Cur.buf) + 1, Len(CurNext.buf))

C19_DoLoopStep ==
  LET L == Len(Cur.buf)
  IN /\ (KeywordStep(kw_DO) /\ pc' = "run") =>
          /\ CurNext.buf = Cur.buf \o <<OP_SWAP, OP_TOR, OP_TOR>>
          /\ Len(control_stack') = control_depth + 1
          /\ SubSeq(control_stack', 1, control_depth) = control_stack
          /\ control_stack'[control_depth + 1].type = DO_CONTROL
          /\ control_stack'[control_depth + 1].do_addr = L + 3
          /\ control_stack'[control_depth + 1].leave_count = 0
     /\ (KeywordStep(kw_LOOP) /\ pc' = "run") =>
          /\ AppendedTail = LoopCode(<<OP_LIT, 1, 0, 0, 0>>, L, TopFrame.do_addr)
          /\ Len(CurNext.buf) = L + 22
          /\ CurNext.buf[L + 12] = OP_JZ /\ CurNext.buf[L + 21] = OP_DROP
          /\ Targets(CurNext.buf, L + 12, L + 20)
          /\ CurNext.buf[L + 18] = OP_JMP
          /\ Targets(CurNext.buf, L + 18, TopFrame.do_addr)
          /\ control_stack' = Popped
     /\ (KeywordStep(kw_PLOOP) /\ pc' = "run") =>
          /\ AppendedTail = LoopCode(<<>>, L, TopFrame.do_addr)
          /\ Len(CurNext.buf) = L + 17
          /\ CurNext.buf[L + 7] = OP_JZ /\ CurNext.buf[L + 16] = OP_DROP
          /\ Targets(CurNext.buf, L + 7, L + 15)
          /\ CurNext.buf[L + 13] = OP_JMP
          /\ Targets(CurNext.buf, L + 13, TopFrame.do_addr)
          /\ control_stack' = Popped

InnermostDoIs(d) ==
  /\ d \in 1..control_depth
  /\ control_stack[d].type = DO_CONTROL
  /\ \A j \in (d + 1)..control_depth : control_stack[j].type # DO_CONTROL

LeaveSites(frame) == {frame.leave_patch_addrs[i] : i \in 1..frame.leave_count}

C20_LeaveStep ==
  (KeywordStep(kw_LEAVE) /\ pc' = "run") =>
    \E d \in 1..control_depth :
      /\ InnermostDoIs(d)
      /\ CurNext.buf = Cur.buf \o <<OP_FROMR, OP_FROMR, OP_DROP, OP_DROP, OP_JMP, 0, 0>>
      /\ control_stack' = [control_stack EXCEPT
            ![d].leave_patch_addrs = Append(@, Len(Cur.buf) + 5),
            ![d].leave_count = @ + 1]
      /\ LeaveSites(control_stack'[d]) = LeaveSites(control_stack[d]) \cup {Len(Cur.buf) + 5}

C20_CloseStep ==
  ((KeywordStep(kw_LOOP) \/ KeywordStep(kw_PLOOP)) /\ pc' = "run") =>
    /\ \A site \in LeaveSites(TopFrame) :
         /\ Cur.buf[site] = OP_JMP
         /\ Targets(CurNext.buf, site, Len(CurNext.buf))
    /\ SameBut(Cur.buf, CurNext.buf, LeaveSites(TopFrame))
    /\ \A i \in 1..(control_depth - 1) :
         \A site \in LeaveSites(control_stack[i]) :
           /\ site \notin LeaveSites(TopFrame)
           /\ CurNext.buf[site + 1] = 0 /\ CurNext.buf[site + 2] = 0

C21_LeaveCounts ==
  \A i \in 1..control_depth :
    control_stack[i].type = DO_CONTROL =>
      /\ control_stack[i].leave_count \in 0..8
      /\ Len(control_stack[i].leave_patch_addrs) = control_stack[i].leave_count

C21_LeaveStep ==
  KeywordStep(kw_LEAVE) =>
    IF \A i \in 1..control_depth : control_stack[i].type # DO_CONTROL
    THEN Fails("LeaveWithoutDo")
    ELSE \E d \in 1..control_depth :
           /\ InnermostDoIs(d)
           /\ IF control_stack[d].leave_count < 8
              THEN /\ Accepted
                   /\ pc' = "run" =>
                        /\ control_stack'[d].leave_count =
                             control_stack[d].leave_count + 1
                        /\ \A i \in 1..control_depth :
                             i # d => control_stack'[i] = control_stack[i]
              ELSE /\ Fails("LeaveDepthExceeded")
                   /\ control_stack' = control_stack
                   /\ CurNext.buf = Cur.buf

C21_LeaveBounded == []C21_LeaveCounts /\ [][C21_LeaveStep]_vars

\* 'DO LEAVE DO' and nine LEAVEs: the ninth of the inner frame was refused
\* while the outer frame holds one
C21_Witness ==
  /\ pc = "err" /\ ret = "LeaveDepthExceeded"
  /\ control_depth = 2
  /\ control_stack[1].type = DO_CONTROL /\ control_stack[1].leave_count = 1
  /\ control_stack[2].type = DO_CONTROL /\ control_stack[2].leave_count = 8

(***************************************************************************)
(* C22: on the stack machine, the expansions of I, J and K (J being FROMR  *)
(* FROMR FROMR DUP TOR TOR TOR, K the same with five of each) each push    *)
(* exactly one value on the data stack, the 1st, 3rd and 5th entry from    *)
(* the return-stack top, and leave the return stack as it was; the machine *)
(* faults only when the return stack is shallower than that.               *)
(***************************************************************************)
IndexDepth(token) ==
  IF str_eq_ci(token, tk_I) THEN 1
  ELSE IF str_eq_ci(token, tk_J) THEN 3
  ELSE 5

IndexCode(token) ==
  IF str_eq_ci(token, tk_I) THEN << OP_RFETCH >>
  ELSE IF str_eq_ci(token, tk_J)
  THEN << OP_FROMR, OP_FROMR, OP_FROMR, OP_DUP, OP_TOR, OP_TOR, OP_TOR >>
  ELSE << OP_FROMR, OP_FROMR, OP_FROMR, OP_FROMR, OP_FROMR, OP_DUP,
          OP_TOR, OP_TOR, OP_TOR, OP_TOR, OP_TOR >>

C22_IndexWords ==
  (pc = "ok" /\ ntok = 1) =>
    /\ out_buf.bytes = IndexCode(last_token) \o << OP_RET >>
    /\ vm.on =>
         /\ vm.fault => Len(vm.rs0) < IndexDepth(last_token)
         /\ vm.halted =>
              /\ Len(vm.rs0) >= IndexDepth(last_token)
              /\ vm.rs = vm.rs0
              /\ vm.ds = Append(vm.ds0,
                     vm.rs0[Len(vm.rs0) - IndexDepth(last_token) + 1])

(***************************************************************************)
(* C23: the control-stack depth is always in 0..32.  IF, BEGIN and DO push *)
(* exactly one frame each; attempted at depth 32 they fail with            *)
(* ControlDepthExceeded before any byte is emitted or any frame written.   *)
(* No closer pops an empty stack: at depth 0 it fails with its own error.  *)
(***************************************************************************)
Openers ==
  { <<kw_IF, IF_CONTROL>>, <<kw_BEGIN, BEGIN_CONTROL>>, <<kw_DO, DO_CONTROL>> }

C23_DepthInRange == control_depth \in 0..32

C23_OpenStep ==
  \A o \in Openers :
    KeywordStep(o[1]) =>
      IF control_depth = 32
      THEN /\ Fails("ControlDepthExceeded")
           /\ bc' = bc /\ word_bc' = word_bc
           /\ control_stack' = control_stack
      ELSE /\ Accepted
           /\ pc' = "run" =>
                /\ Len(control_stack') = control_depth + 1
                /\ SubSeq(control_stack', 1, control_depth) = control_stack
                /\ control_stack'[control_depth + 1].type = o[2]

C23_CloseStep ==
  \A c \in Closers :
    (KeywordStep(c[1]) /\ control_depth = 0) =>
      /\ Fails(c[3])
      /\ bc' = bc /\ word_bc' = word_bc
      /\ control_stack' = control_stack

C23_DepthBounded ==
  []C23_DepthInRange /\ [][C23_OpenStep /\ C23_CloseStep]_vars

\* DO was refused on a full stack of 31 IF frames under a BEGIN frame
C23_Witness ==
  /\ pc = "err" /\ ret = "ControlDepthExceeded"
  /\ last_token = kw_DO
  /\ control_depth = 32
  /\ control_stack[32].type = BEGIN_CONTROL
  /\ \A i \in 1..31 : control_stack[i].type = IF_CONTROL

(***************************************************************************)
(* C24: at end of input with a non-empty control stack the compilation     *)
(* fails with UnclosedIf, UnclosedBegin or UnclosedDo according to the     *)
(* kind of the frame on top of the stack, not of the oldest frame; a       *)
(* compilation succeeds only with an empty control stack and no active     *)
(* definition at end of input.                                             *)
(***************************************************************************)
C24_EndStep == pc = "run" /\ pc' # "run" /\ last_op' = "EOI"

C24_UnclosedStep ==
  C24_EndStep =>
    /\ control_depth > 0 =>
         /\ control_stack[control_depth].type = IF_CONTROL
              => Fails("UnclosedIf")
         /\ control_stack[control_depth].type = BEGIN_CONTROL
              => Fails("UnclosedBegin")
         /\ control_stack[control_depth].type = DO_CONTROL
              => Fails("UnclosedDo")
    /\ pc' = "ok" => (control_depth = 0 /\ ~in_definition)

C24_OkIsClosed == pc = "ok" => (control_stack = <<>> /\ ~in_definition)

C24_UnclosedByTopFrame == []C24_OkIsClosed /\ [][C24_UnclosedStep]_vars

\* IF BEGIN and the end of input: the BEGIN on top decides, not the IF
C24_Witness ==
  /\ pc = "err" /\ ret = "UnclosedBegin" /\ last_op = "EOI"
  /\ control_depth = 2
  /\ control_stack[1].type = IF_CONTROL
  /\ control_stack[2].type = BEGIN_CONTROL

(***************************************************************************)
(* C25: the first error aborts the compilation.  The returned code is the  *)
(* error of the earliest token, in source order, that cannot be accepted   *)
(* in the state reached by the tokens before it; no token after it is      *)
(* examined or emitted; the errors of the end of input are reported only   *)
(* when every token was accepted (WHILE REPEAT yields WhileWithoutBegin,   *)
(* : A : B ; yields NestedColon).                                          *)
(***************************************************************************)
C25_CodeAndState ==
  /\ pc = "run" => ret = "OK"
  /\ pc = "ok" => ret = "OK"
  /\ pc = "err" => ret # "OK"

\* a token is read only while no error was met, it is the next token of
\* the text, and what it cannot be accepted for is what is returned
C25_TokenStep ==
  ntok' = ntok + 1 =>
    /\ pc = "run" /\ ret = "OK"
    /\ last_token' = CurToken
    /\ cursor' \in { AfterToken, NameAfterColon.end }
    /\ pc' \in {"run", "err"}
    /\ (str_eq_ci(CurToken, kw_WHILE) /\ control_depth = 0)
         => Fails("WhileWithoutBegin")
    /\ (str_eq_ci(CurToken, kw_COLON) /\ in_definition)
         => Fails("NestedColon")
    /\ (str_eq_ci(CurToken, kw_SEMI) /\ ~in_definition)
         => Fails("SemicolonWithoutColon")

\* once the compilation has returned, nothing more is read or emitted
C25_AfterReturn ==
  pc # "run" =>
    UNCHANGED << pc, ret, cursor, ntok, last_token, bc, word_bc, out_buf,
                 control_stack, word_dict >>

\* the checks of the end of input run only when the whole text was read
C25_EndOfInputStep ==
  (last_op' = "EOI" /\ last_op # "EOI") =>
    /\ pc = "run" /\ ret = "OK"
    /\ ExtractToken(source, cursor).none

C25_FirstErrorAborts ==
  /\ []C25_CodeAndState
  /\ [][C25_TokenStep /\ C25_AfterReturn /\ C25_EndOfInputStep]_vars

\* WHILE REPEAT: WHILE is refused and REPEAT is never read
C25_Witness ==
  /\ source = kw_WHILE \o << " " >> \o kw_REPEAT \o << " " >>
  /\ pc = "err" /\ ret = "WhileWithoutBegin"
  /\ ntok = 1 /\ cursor = 5
  /\ bc.buf = <<>>

(***************************************************************************)
(* C26: a source that is NULL, empty or made of whitespace only compiles   *)
(* successfully to a main stream of exactly one byte, RET, with            *)
(* word_count = 0 (unless the one allocation it needs fails, which is      *)
(* OutOfMemory).                                                           *)
(***************************************************************************)
WhitespaceOnly(text) ==
  \/ text = NullSource
  \/ \A i \in 1..Len(text) : text[i] \in {" ", "\t", "\n", "\r", "\f", "VT"}

C26_BlankSourceIsRet ==
  (by_char /\ WhitespaceOnly(source) /\ pc # "run") =>
    \/ /\ pc = "ok" /\ ret = "OK"
       /\ ntok = 0
       /\ out_buf.size = 1
       /\ out_buf.bytes = << OP_RET >>
       /\ out_buf.data # 0
       /\ out_buf.word_count = 0 /\ out_buf.words = 0
    \/ pc = "err" /\ ret = "OutOfMemory"

\* blank, newline, blank: the end of input is met before any token
C26_Witness ==
  /\ source = << " ", "\n", " " >>
  /\ pc = "ok" /\ last_op = "EOI"
  /\ cursor = 3
  /\ out_buf.bytes = << OP_RET >>

(***************************************************************************)
(* C27: compilation always terminates.  For every finite source text each  *)
(* iteration of the token loop consumes at least one byte of the source,   *)
(* the name read after ':' included, the cursor never moves backwards nor  *)
(* beyond the end of the text, and the invocation eventually returns       *)
(* success or an error.                                                    *)
(***************************************************************************)
SourceLen == IF source = NullSource THEN 0 ELSE Len(source)

C27_CursorStep ==
  /\ cursor' >= cursor
  /\ cursor' <= SourceLen
  /\ ntok' = ntok + 1 =>
       /\ cursor' > cursor
       /\ (str_eq_ci(CurToken, kw_COLON) /\ ~in_definition
             /\ NameAfterColon.text # <<>>)
            => cursor' >= AfterToken + 1 + Len(NameAfterColon.text)

C28_Expected(cap, msg) ==
  LET n == IF Len(msg) > cap - 1 THEN cap - 1 ELSE Len(msg)
  IN [i \in 1..cap |-> IF i <= n THEN msg[i]
                       ELSE IF i = n + 1 THEN 0 ELSE "?"]

C28_MessageBounded ==
  /\ ~err_buf.oob
  /\ Len(err_buf.mem) = (IF err_buf.null THEN 0 ELSE err_buf.cap)
  /\ ~err_buf.called => \A i \in 1..Len(err_buf.mem) : err_buf.mem[i] = "?"
  /\ err_buf.called =>
       IF err_buf.null \/ err_buf.cap = 0
       THEN \A i \in 1..Len(err_buf.mem) : err_buf.mem[i] = "?"
       ELSE err_buf.mem = C28_Expected(err_buf.cap, err_buf.msg)

\* a message of six bytes written into a buffer of four
C28_Witness ==
  /\ last_op = "WRITE_ERROR"
  /\ err_buf.msg = << "a","b","c","d","e","f" >>
  /\ err_buf.cap = 4
  /\ err_buf.mem = << "a", "b", "c", 0 >>

(***************************************************************************)
(* C29: v4front_compile_word(name, source, ...) is independent of name:    *)
(* for every source and any two names (NULL included) the return code, the *)
(* error message and the contents of the handle are the same, and the same *)
(* as those of v4front_compile(source, ...).                               *)
(* Every call enters compile_internal in the state v4front_compile enters  *)
(* it in for that text, and from then on the name is read by no step: the  *)
(* states that follow are those of v4front_compile but for the record of   *)
(* the call.                                                               *)
(***************************************************************************)
C29_EntryStep ==
  pc = "call" =>
    /\ pc' = "run" /\ ret' = "OK"
    /\ in_definition' = FALSE
    /\ current_word_name' = <<>>
    /\ word_dict' = <<>> /\ control_stack' = <<>>
    /\ bc' = NullStream /\ word_bc' = NullStream /\ current_bc' = "bc"
    /\ out_buf' = ZeroBuf /\ heap' = <<>>
    /\ cursor' = 0 /\ ntok' = 0
    /\ err_buf' = err_buf

\* after the entry the record of the call is only carried along
C29_CallCarried == pc \notin {"call"} => call' = call

\* outside a definition opened by the text itself no word is named
C29_NoNameFromCall ==
  /\ (pc # "call" /\ ~in_definition) => current_word_name = <<>>
  /\ pc = "ok" => ~in_definition

C29_NameIgnored ==
  []C29_NoNameFromCall /\ [][C29_EntryStep /\ C29_CallCarried]_vars

\* v4front_compile_word("A", ": A ; A ") has returned what v4front_compile
\* returns for that text: A defined, called once from the main code
C29_Witness ==
  /\ call = [fn |-> "v4front_compile_word", name |-> tk_A]
  /\ source = kw_COLON \o << " " >> \o tk_A \o << " " >> \o kw_SEMI
                \o << " " >> \o tk_A \o << "\n" >>
  /\ pc = "ok"
  /\ out_buf.word_count = 1
  /\ out_buf.bytes = << OP_CALL, 0, 0, OP_RET >>

(***************************************************************************)
(* C30: after any accepted token sequence the data-space allocator equals  *)
(* base + 4 * (number of VARIABLE entries), base being 0x10000: the k-th   *)
(* VARIABLE in declaration order (k from 0) gets the body LIT (base + 4k)  *)
(* RET, whatever colon definitions and CONSTANTs are declared in between,  *)
(* and a VARIABLE that fails (no name, duplicate name) allocates nothing.  *)
(***************************************************************************)
IsVariableEntry(w) == "kind" \in DOMAIN w /\ w.kind = "Variable"

\* the VARIABLE entries among the first n entries of the dictionary
VariablesBefore(n) ==
  Cardinality({ i \in 1..n : IsVariableEntry(word_dict[i]) })

C30_Allocator ==
  /\ data_space = 65536 + 4 * VariablesBefore(word_count)
  /\ \A i \in 1..word_count :
       IsVariableEntry(word_dict[i]) =>
         /\ word_dict[i].code_len = 6
         /\ word_dict[i].bytes =
              << OP_LIT >> \o LE32(65536 + 4 * VariablesBefore(i - 1))
                \o << OP_RET >>

C30_VariableStep ==
  KeywordStep(kw_VARIABLE) =>
    \/ /\ pc' = "run"
       /\ Len(word_dict') = word_count + 1
       /\ IsVariableEntry(word_dict'[word_count + 1])
       /\ data_space' = data_space + 4
    \/ /\ pc' = "err"
       /\ ret' \in {"VariableWithoutName", "DuplicateWord"}
       /\ data_space' = data_space
       /\ word_dict' = word_dict

C30_DataSpace == []C30_Allocator /\ [][C30_VariableStep]_vars

\* VARIABLE A  42 CONSTANT X  VARIABLE HELLO : a constant between two
\* variables, the second variable one cell behind the first
C30_Witness ==
  /\ pc = "ok"
  /\ word_count = 3
  /\ IsVariableEntry(word_dict[1])
  /\ ~IsVariableEntry(word_dict[2])
  /\ IsVariableEntry(word_dict[3])
  /\ word_dict[3].bytes = << OP_LIT, 4, 0, 1, 0, OP_RET >>
  /\ data_space = 65544

(***************************************************************************)
(* C31: '<int> CONSTANT <name>' removes the 5-byte LIT emitted for <int>   *)
(* from the current stream and creates a dictionary entry <name> whose     *)
(* code is exactly LIT <int> RET (6 bytes); the current stream afterwards  *)
(* is what it was before the literal token, so '42 CONSTANT X' alone       *)
(* yields a main stream of the single byte RET, and later uses of <name>   *)
(* emit CALL to its index.                                                 *)
(***************************************************************************)
IsConstantEntry(w) == "kind" \in DOMAIN w /\ w.kind = "Constant"

\* the literal token appends LIT <int> and nothing else
C31_LiteralStep ==
  (ntok' = ntok + 1 /\ last_token' = tk_42 /\ pc' = "run") =>
    Cur'.buf = Cur.buf \o << OP_LIT >> \o LE32(42)

\* an accepted CONSTANT takes exactly those five bytes back and puts them,
\* followed by RET, into the new entry
C31_ConstStep ==
  (KeywordStep(kw_CONST) /\ pc' = "run") =>
    LET n == Len(Cur.buf) IN
    /\ n >= 5
    /\ SubSeq(Cur.buf, n - 4, n) = << OP_LIT >> \o LE32(42)
    /\ Cur'.buf = SubSeq(Cur.buf, 1, n - 5)
    /\ Len(word_dict') = word_count + 1
    /\ SubSeq(word_dict', 1, word_count) = word_dict
    /\ IsConstantEntry(word_dict'[word_count + 1])
    /\ word_dict'[word_count + 1].code_len = 6
    /\ word_dict'[word_count + 1].bytes = << OP_LIT >> \o LE32(42) \o << OP_RET >>

\* a later use of the name is a CALL to the index of the entry
C31_UseStep ==
  (ntok' = ntok + 1 /\ last_op' = "WORD" /\ pc' = "run"
     /\ LookupWord(last_token') >= 0
     /\ IsConstantEntry(word_dict[LookupWord(last_token') + 1])) =>
    Cur'.buf = Cur.buf \o << OP_CALL >> \o LE16(LookupWord(last_token'))

\* '42 CONSTANT <name>' alone
C31_Alone ==
  (pc = "ok" /\ ntok = 2 /\ word_count = 1 /\ IsConstantEntry(word_dict[1])) =>
    /\ out_buf.bytes = << OP_RET >>
    /\ out_buf.size = 1

C31_ConstantEntry ==
  []C31_Alone /\ [][C31_LiteralStep /\ C31_ConstStep /\ C31_UseStep]_vars

\* 42 CONSTANT X  X : the entry is LIT 42 RET and the main stream the call
C31_Witness ==
  /\ pc = "ok"
  /\ ntok = 3
  /\ word_count = 1
  /\ IsConstantEntry(word_dict[1])
  /\ word_dict[1].bytes = << OP_LIT, 42, 0, 0, 0, OP_RET >>
  /\ out_buf.bytes = << OP_CALL, 0, 0, OP_RET >>

(***************************************************************************)
(* C32: CONSTANT fails with ConstantWithoutValue unless the token read     *)
(* just before it is an integer literal emitted on the current stream: at  *)
(* the start of input, after a primitive such as DUP even if a literal     *)
(* precedes that primitive, and after another construct.  It fails with    *)
(* ConstantWithoutName when no name token follows and with DuplicateWord   *)
(* when the name is already in the dictionary, whether as a colon word, a  *)
(* constant or a variable.                                                 *)
(***************************************************************************)
\* the token read last was an integer literal
AfterLiteral == last_op = "INT"

C32_ConstStep ==
  KeywordStep(kw_CONST) =>
    LET name == NameAfterColon.text IN
    IF ~AfterLiteral THEN Fails("ConstantWithoutValue")
    ELSE IF name = <<>> THEN Fails("ConstantWithoutName")
    ELSE IF \E i \in 1..word_count : str_eq_ci(word_dict[i].name, name)
    THEN Fails("DuplicateWord")
    ELSE pc' = "run"

\* the cases named: start of input, after DUP behind a literal, after ';'
C32_NamedCases ==
  KeywordStep(kw_CONST) =>
    /\ ntok = 0 => Fails("ConstantWithoutValue")
    /\ last_op = "PRIM" => Fails("ConstantWithoutValue")
    /\ last_op \in {"SEMI", "VARIABLE", "CONST", "WORD"} =>
         Fails("ConstantWithoutValue")

C32_ConstantErrors == [][C32_ConstStep /\ C32_NamedCases]_vars

\* VARIABLE X 42 CONSTANT X : the name of a variable is refused
C32_Witness ==
  /\ pc = "err"
  /\ ret = "DuplicateWord"
  /\ last_op = "CONST"
  /\ ntok = 3
  /\ word_count = 1
  /\ IsVariableEntry(word_dict[1])

(***************************************************************************)
(* C33: a '(' token is a comment opener only when it is followed by        *)
(* whitespace or the end of the input; the comment ends at the first ')'   *)
(* (no nesting), the bytes in between, newlines included, produce no       *)
(* token, and reaching the end of the input before a ')' fails with        *)
(* UnterminatedComment; a token such as '(A)', with no whitespace after    *)
(* '(', is an ordinary single token.                                       *)
(***************************************************************************)
\* the loop is about to read a token
AtToken == pc = "run" /\ ~ExtractToken(source, cursor).none

\* the offsets behind the opener at cursor where a ')' stands
ClosersAhead ==
  { q \in AfterToken..(Len(source) - 1) : source[q + 1] = ")" }

\* '(' on its own: through the first ')' nothing is read as a token
C33_CommentStep ==
  (AtToken /\ CurToken = << "(" >>) =>
    /\ CharAt(source, ExtractToken(source, cursor).start + 1) = NUL
         \/ isspace(CharAt(source, ExtractToken(source, cursor).start + 1))
    /\ ntok' = ntok
    /\ bc' = bc
    /\ word_bc' = word_bc
    /\ IF ClosersAhead = {}
       THEN Fails("UnterminatedComment")
       ELSE /\ pc' = "run"
            /\ cursor' - 1 \in ClosersAhead
            /\ \A q \in ClosersAhead : q >= cursor' - 1

\* '(' with something glued to it: one ordinary token
C33_GluedStep ==
  (AtToken /\ Len(CurToken) > 1 /\ Head(CurToken) = "(") =>
    /\ ntok' = ntok + 1
    /\ last_token' = CurToken
    /\ cursor' = ExtractToken(source, cursor).end
    /\ ret' # "UnterminatedComment"

\* an accepted text: one literal per token read
C33_Accepted ==
  pc = "ok" =>
    out_buf.bytes = Flat([i \in 1..ntok |-> << OP_LIT >> \o LE32(42)])
                      \o << OP_RET >>

C33_ParenComments ==
  []C33_Accepted /\ [][C33_CommentStep /\ C33_GluedStep]_vars

\* "( \nA ) 42 " : the comment spans a line end, the literal behind it is
\* the only token
C33_Witness ==
  /\ pc = "ok"
  /\ source = << "(", " ", "\n", "A", " ", ")", " ", "4", "2", " " >>
  /\ ntok = 1
  /\ out_buf.bytes = << OP_LIT, 42, 0, 0, 0, OP_RET >>

(***************************************************************************)
(* C34: the dictionary is bounded at 256 entries: in every reachable state *)
(* the number of entries is in 0..256, the 256th definition is accepted,   *)
(* and an attempt to start a 257th definition fails with DictionaryFull    *)
(* without writing past the dictionary storage.                            *)
(***************************************************************************)
C34_CountInRange ==
  /\ word_count \in 0..256
  /\ Len(word_dict) <= 256
  /\ out_buf.word_count \in 0..256

\* ':' with a name that is neither missing nor taken
C34_ColonStep ==
  (ColonStep /\ ~in_definition
     /\ ~(pc' = "err" /\ ret' \in {"ColonWithoutName", "DuplicateWord"})) =>
    IF word_count >= 256
    THEN Fails("DictionaryFull") /\ word_dict' = word_dict /\ ~in_definition'
    ELSE pc' = "run" /\ in_definition'

\* ';' stores the entry at index word_count, inside word_dict[256]
C34_SemiStep ==
  (SemiStep /\ in_definition /\ pc' = "run") =>
    /\ word_count < 256
    /\ Len(word_dict') = word_count + 1
    /\ SubSeq(word_dict', 1, word_count) = word_dict

C34_DictionaryBounded ==
  []C34_CountInRange /\ [][C34_ColonStep /\ C34_SemiStep]_vars

\* 256 definitions were accepted and the 257th ':' was refused
C34_Witness ==
  /\ pc = "err"
  /\ ret = "DictionaryFull"
  /\ word_count = 256
  /\ ntok = 513
  /\ current_word_name = << "W", "2", "5", "6" >>

(***************************************************************************)
(* C35: EXIT is accepted in every state (main code or inside a definition, *)
(* at any control-stack depth) and appends exactly one RET byte to the     *)
(* current stream; it leaves the control stack, the definition flag, the   *)
(* dictionary and every pending patch site unchanged.  The one way it can  *)
(* fail is the growth of the stream for that byte.                         *)
(***************************************************************************)
ExitStep == ntok' = ntok + 1 /\ last_op' = "EXIT"

C35_ExitStep ==
  ExitStep =>
    \/ /\ pc' = "run"
       /\ Cur'.buf = Append(Cur.buf, OP_RET)
       /\ current_bc' = current_bc
       /\ current_bc = "bc" => word_bc' = word_bc
       /\ current_bc = "word_bc" => bc' = bc
       /\ control_stack' = control_stack
       /\ in_definition' = in_definition
       /\ current_word_name' = current_word_name
       /\ word_dict' = word_dict
    \/ /\ Fails("OutOfMemory")
       /\ Len(Cur.buf) >= Cur.cap

C35_ExitAnywhere == [][C35_ExitStep]_vars

\* EXIT read in main code with an open control structure
C35_Witness ==
  /\ pc = "run"
  /\ last_op = "EXIT"
  /\ ~in_definition
  /\ control_depth > 0
  /\ bc.buf[Len(bc.buf)] = OP_RET

(***************************************************************************)
(* C36: every time control reaches do_addr (first entry after the DO       *)
(* preamble and every re-entry through the backward JMP of LOOP or +LOOP)  *)
(* the return-stack top is the current index with the limit directly       *)
(* beneath it, so I yields start, start+1, ... on successive iterations;   *)
(* and when the loop exits, normally or through LEAVE, both loop           *)
(* parameters have been removed from the return stack and the data stack   *)
(* holds nothing left over from the loop macro.                            *)
(***************************************************************************)
LoopLimit == vm.ds0[Len(vm.ds0) - 1]
LoopStart == vm.ds0[Len(vm.ds0)]

C36_AtLoopStart ==
  (vm.on /\ ~vm.fault /\ ~vm.halted /\ vm.ip = DoAddr) =>
    vm.rs = vm.rs0 \o << LoopLimit, LoopStart + vm.visits - 1 >>

C36_AfterLoop ==
  vm.on =>
    /\ ~vm.fault
    /\ vm.halted =>
         /\ vm.rs = vm.rs0
         /\ vm.ds = SubSeq(vm.ds0, 1, Len(vm.ds0) - 2)

C36_LoopInvariant == C36_AtLoopStart /\ C36_AfterLoop

(***************************************************************************)
(* C37: every stored branch offset equals the exact difference             *)
(* target - (P + 2) and fits in a signed 16-bit integer: no forward or     *)
(* backward distance is reduced modulo 2^16 when the branch and its target *)
(* are more than 32767 bytes apart in the stream.                          *)
(***************************************************************************)
\* THEN stores the distance from the operand of the JZ of IF to the cursor
C37_ThenStep ==
  (KeywordStep(kw_THEN) /\ pc' = "run") =>
    LET P == TopFrame.jz_patch_addr
        offset == RdI16(Cur'.buf, P + 1)
    IN /\ offset = Len(Cur.buf) - (P + 2)
       /\ offset \in -32768..32767

\* UNTIL stores the distance from its own operand back to BEGIN
C37_UntilStep ==
  (KeywordStep(kw_UNTIL) /\ pc' = "run") =>
    LET P == Len(Cur.buf) + 1
        offset == RdI16(Cur'.buf, P + 1)
    IN /\ offset = TopFrame.begin_addr - (P + 2)
       /\ offset \in -32768..32767

C37_ExactOffsets == [][C37_ThenStep /\ C37_UntilStep]_vars

(***************************************************************************)
(* C38: emitter invariant for each stream after every append: size <=      *)
(* capacity, capacity is 0 or 64 * 2^k, size increases by exactly the      *)
(* number of bytes appended (1, 2 or 4), all bytes at indices below the    *)
(* old size keep their values across a growth step, and an append that     *)
(* fails on allocation surfaces as OutOfMemory with the buffer pointer and *)
(* the capacity unchanged.  A failing append_byte leaves the size          *)
(* unchanged too; a failing append_i16_le or append_i32_le has appended    *)
(* the bytes that fitted before the growth, fewer than its width.          *)
(***************************************************************************)
Capacities == { 0 } \cup { 64 * 2^k : k \in 0..3 }

AppendWidth(fn) ==
  IF fn = "append_byte" THEN 1 ELSE IF fn = "append_i16_le" THEN 2 ELSE 4

AppendStep == ntok' = ntok + 1 /\ last_op' \in { "append_byte", "append_i16_le", "append_i32_le" }

C38_SizeAndCapacity ==
  /\ Len(bc.buf) <= bc.cap
  /\ bc.cap \in Capacities
  /\ bc.cap = 0 <=> bc.ptr = 0

\* an append that succeeds
C38_Succeeds ==
  (AppendStep /\ pc' = "run") =>
    /\ Len(bc'.buf) = Len(bc.buf) + AppendWidth(last_op')
    /\ SubSeq(bc'.buf, 1, Len(bc.buf)) = bc.buf
    /\ bc'.cap \in { bc.cap, IF bc.cap = 0 THEN 64 ELSE 2 * bc.cap }

\* an append that fails leaves everything as it was
C38_FailsUnchanged ==
  (AppendStep /\ pc' = "err") =>
    /\ ret' = "OutOfMemory"
    /\ bc' = bc

\* an append that fails: what was appended before the growth stays
C38_FailsPrefix ==
  (AppendStep /\ pc' = "err") =>
    /\ ret' = "OutOfMemory"
    /\ bc'.ptr = bc.ptr
    /\ bc'.cap = bc.cap
    /\ Len(bc.buf) <= Len(bc'.buf)
    /\ Len(bc'.buf) < Len(bc.buf) + AppendWidth(last_op')
    /\ Len(bc'.buf) = bc.cap
    /\ SubSeq(bc'.buf, 1, Len(bc.buf)) = bc.buf
    /\ last_op' = "append_byte" => bc' = bc

TokenStep == ntok' = ntok + 1 /\ pc' = "run"

\* between ':' and ';', ';' included, the main stream stays as it is
C39_MainFrozen ==
  (TokenStep /\ in_definition) => bc' = bc

\* outside a definition the word stream stays as it is; ':' sets it up anew
C39_WordStreamIdle ==
  (TokenStep /\ ~in_definition /\ ~in_definition') => word_bc' = word_bc

\* the entries sealed so far stay as they are while the compilation goes on
\* and when it ends
C39_SealedFrozen ==
  (pc' \in {"run", "ok"}) =>
    /\ Len(word_dict') >= word_count
    /\ \A i \in 1..word_count : word_dict'[i] = word_dict[i]

\* the handle gets the sealed entries as they were sealed
C39_HandedOver ==
  pc = "ok" =>
    \A i \in 1..word_count :
      /\ out_buf.entries[i].bytes = word_dict[i].bytes
      /\ out_buf.entries[i].code_len = word_dict[i].code_len

Defined(token) ==
  \E i \in 1..word_count : str_eq_ci(word_dict[i].name, token)

\* the index (from 0) of the first entry with the name of the token
FirstEntry(token) ==
  CHOOSE i \in 0..(word_count - 1) :
    /\ str_eq_ci(word_dict[i + 1].name, token)
    /\ \A j \in 1..i : ~str_eq_ci(word_dict[j].name, token)

\* DUP read while a word DUP is in the dictionary: a CALL to it
C40_ShadowedStep ==
  (ntok' = ntok + 1 /\ str_eq_ci(last_token', tk_DUP) /\ last_op' # "COLON"
     /\ Defined(tk_DUP)) =>
    /\ last_op' = "WORD"
    /\ pc' = "run"
    /\ Cur'.buf = Cur.buf \o << OP_CALL >> \o LE16(FirstEntry(tk_DUP))

\* DUP read while no word DUP is in the dictionary: the primitive
C40_PrimitiveStep ==
  (ntok' = ntok + 1 /\ str_eq_ci(last_token', tk_DUP) /\ last_op' # "COLON"
     /\ ~Defined(tk_DUP)) =>
    /\ last_op' = "PRIM"
    /\ pc' = "run"
    /\ Cur'.buf = Cur.buf \o << OP_DUP >>

\* a keyword read while a word of that name is in the dictionary: still the
\* keyword, and no CALL
C40_KeywordStep ==
  /\ (KeywordStep(kw_IF) /\ Defined(kw_IF)) =>
       /\ last_op' = "IF"
       /\ pc' = "run" => Cur'.buf = Cur.buf \o << OP_JZ, 0, 0 >>
  /\ (KeywordStep(kw_EXIT) /\ Defined(kw_EXIT)) =>
       /\ last_op' = "EXIT"
       /\ pc' = "run" => Cur'.buf = Cur.buf \o << OP_RET >>
  /\ (ntok' = ntok + 1 /\ IsKeyword(last_token')) =>
       last_op' \notin { "WORD", "PRIM", "INT", "UNKNOWN" }

C40_DictionaryBeforePrimitives ==
  [][C40_ShadowedStep /\ C40_PrimitiveStep /\ C40_KeywordStep]_vars

\* : DUP DROP ; dup : the main code is a call of the word, not the opcode
C40_Witness ==
  /\ pc = "ok"
  /\ ntok = 4
  /\ word_count = 1
  /\ word_dict[1].name = tk_DUP
  /\ word_dict[1].bytes = << OP_DROP, OP_RET >>
  /\ last_token = tk_dup
  /\ out_buf.bytes = << OP_CALL, 0, 0, OP_RET >>

====
